---- MODULE Spec2Model ----
(***************************************************************************)
(* Griswold light show animator: the project store (useProjectStore) and   *)
(* the undo/redo history kept by the temporal middleware wrapped around it.*)
(*                                                                         *)
(* The store is created as temporal(config, {partialize, limit: 100}).     *)
(* No equality and no diff option is given, so the middleware records a    *)
(* snapshot of partialize(state) on EVERY call of set(), whatever field    *)
(* the call changes; undo and redo write a snapshot back with the inner,   *)
(* unrecorded set.                                                         *)
(*                                                                         *)
(* Encoding: uuids are the naturals 1, 2, ... handed out by nextId; the    *)
(* null id is 0. Numbers (times, values, sizes) are integers. lastOp is    *)
(* the name of the last call and calls the number of store action calls    *)
(* made so far; neither is read by the program.                            *)
(*                                                                         *)
(* The toolbar's cue export (generateCues) and getActorValueAtTime are     *)
(* computed over exact rationals [n, d]; a time is a whole number of units *)
(* of 1/UnitsPerMs millisecond. tickRate is the toolbar's tick rate and    *)
(* cues the list the last generateCues() returned.                         *)
(***************************************************************************)
EXTENDS Integers, Sequences, FiniteSets, TLC

VARIABLES project, actors, backgrounds, playback, ui, audioBuffer, audioFile,
          pastStates, futureStates, nextId, lastOp, calls, tickRate, cues,
          loop, page, timer, localStorage, download, data,
          drawingState, viewState, showActorAssignModal, pendingShape,
          startPlaybackTimeRef

vars == <<project, actors, backgrounds, playback, ui, audioBuffer, audioFile,
          pastStates, futureStates, nextId, lastOp, calls, tickRate, cues,
          loop, page, timer, localStorage, download, data,
          drawingState, viewState, showActorAssignModal, pendingShape,
          startPlaybackTimeRef>>

\* the route, the pending autosave timeout, the autosave slot, the last
\* project file saved and the file a load has read
fileVars == <<page, timer, localStorage, download, data>>

\* the state of the pages: the sampling loop of generateCues and fileVars
pageVars == <<loop, fileVars>>

\* the state of the canvas panel
canvasVars == <<drawingState, viewState, showActorAssignModal, pendingShape>>

----------------------------------------------------------------------------
(* Bounds of the exploration *)

\* number of store action calls in Spec (undo and redo are not counted)
MaxCalls == 3
\* number of store action calls in SpecSel
MaxSelCalls == 4
\* number of store action calls in SpecKf
MaxKfCalls == 4
\* number of store action calls in SpecHist
MaxMutations == 103
\* number of store action calls in SpecActor
MaxActorCalls == 4
\* number of store action calls in SpecBg
MaxBgCalls == 4
\* number of store action calls in SpecCues
MaxCueCalls == 2
\* time units per millisecond
UnitsPerMs == 2
\* largest time getActorValueAtTime is asked for in the properties
MaxQueryTime == 6
\* number of passes of the sampling loop of generateCues followed in SpecLoop
MaxPasses == 8
\* number of times one file is migrated in SpecMigrate
MaxMigrations == 2
\* number of store action calls in SpecPages
MaxPageCalls == 3
\* number of store action calls in SpecSave
MaxSaveCalls == 3
\* number of canvas handlers that call the store in SpecHit
MaxHitCalls == 3
\* number of canvas handlers that call the store in SpecDraw
MaxDrawCalls == 3
\* number of vertices the polygon tool collects in SpecDraw
MaxVertices == 3
\* number of canvas handlers that call the store in SpecPointer
MaxPointerCalls == 3
\* number of canvas handlers that call the store in SpecColor
MaxColorCalls == 5
\* number of store action calls and select clicks in SpecOne
MaxOneCalls == 3
\* number of handlers and playback ticks that call the store in SpecPlayer
MaxPlayerCalls == 4
\* number of Add Actor clicks and actor removals in SpecLabel
MaxLabelCalls == 6
\* number of handlers that call the store in SpecValue
MaxValueCalls == 3

----------------------------------------------------------------------------
(* Program constants *)

\* temporal option limit
limit == 100
\* initialProject.canvasSize
InitialWidth == 1920
InitialHeight == 1080
\* the factor of the rounding to 3 decimals in generateCues
Thousand == 1000
UnitsPerSecond == UnitsPerMs * Thousand
\* useState(0.1): the default tick rate, 100 ms
DefaultTickRate == UnitsPerSecond \div 10
\* initialUI.zoom and the clamp of setZoom
InitialZoom == 100
MinZoom == 10
MaxZoom == 500

NullId == 0
NoShape == "null"
NoAudio == "null"

----------------------------------------------------------------------------
(* Input domains *)

Labels == {"A", "B"}
Shapes == {"rect"}
Times == {0, 1, 2}
Values == {0, 1}
Tools == {"select", "rectangle", "polygon"}
ZoomInputs == {600}
SeekInputs == {7}
Durations == {5}
ImageSizes == {<<800, 600>>, <<2000, 900>>}

----------------------------------------------------------------------------
(* Helpers: JavaScript array and object operations *)

\* { ...rec, ...upd }
Spread(rec, upd) ==
  [f \in (DOMAIN rec) \cup (DOMAIN upd) |-> IF f \in DOMAIN upd THEN upd[f] ELSE rec[f]]

\* array.map(F)
Map(s, F(_)) == [i \in 1 .. Len(s) |-> F(s[i])]

\* Array.prototype.sort((x, y) => x.time - y.time): a stable sort by time
RECURSIVE InsertByTime(_, _)
InsertByTime(sorted, k) ==
  IF sorted = <<>> THEN <<k>>
  ELSE IF Head(sorted).time <= k.time
       THEN <<Head(sorted)>> \o InsertByTime(Tail(sorted), k)
       ELSE <<k>> \o sorted

RECURSIVE SortByTime(_)
SortByTime(s) ==
  IF s = <<>> THEN <<>>
  ELSE InsertByTime(SortByTime(SubSeq(s, 1, Len(s) - 1)), s[Len(s)])

\* Math.max(0, ...zs)
RECURSIVE MaxOf(_, _)
MaxOf(m, zs) ==
  IF zs = <<>> THEN m
  ELSE MaxOf(IF Head(zs) > m THEN Head(zs) ELSE m, Tail(zs))

Max2(a, b) == IF a > b THEN a ELSE b
Min2(a, b) == IF a < b THEN a ELSE b

----------------------------------------------------------------------------
(* Initial state *)

initialProject ==
  [name |-> "Untitled Project", songFilename |-> "",
   canvasSize |-> [width |-> InitialWidth, height |-> InitialHeight]]

initialPlayback == [currentTime |-> 0, isPlaying |-> FALSE, duration |-> 0]

initialUI ==
  [selectedActorId |-> NullId, selectedBackgroundId |-> NullId,
   zoom |-> InitialZoom, scrollX |-> 0, scrollY |-> 0, tool |-> "select"]

\* generateCues is not running
idleLoop == [running |-> FALSE, t |-> 0, cues |-> <<>>, passes |-> 0]

\* useState of CanvasPanel; the zoom is in percent
initialDrawingState ==
  [isDrawing |-> FALSE, startX |-> 0, startY |-> 0, currentX |-> 0, currentY |-> 0,
   polygonPoints |-> <<>>]

initialViewState == [zoom |-> 100, isPanning |-> FALSE]

Init ==
  /\ project = initialProject
  /\ actors = <<>>
  /\ backgrounds = <<>>
  /\ playback = initialPlayback
  /\ ui = initialUI
  /\ audioBuffer = NoAudio
  /\ audioFile = NoAudio
  /\ pastStates = <<>>
  /\ futureStates = <<>>
  /\ nextId = 1
  /\ lastOp = "init"
  /\ calls = 0
  /\ tickRate = DefaultTickRate
  /\ cues = <<>>
  /\ loop = idleLoop
  /\ page = "landing"
  /\ timer = <<>>
  /\ localStorage = <<>>
  /\ download = <<>>
  /\ data = <<>>
  /\ drawingState = initialDrawingState
  /\ viewState = initialViewState
  /\ showActorAssignModal = FALSE
  /\ pendingShape = <<>>
  /\ startPlaybackTimeRef = 0

----------------------------------------------------------------------------
(* The temporal middleware *)

\* partialize: the slice of the store a snapshot holds
partialize(p, a, b) == [project |-> p, actors |-> a, backgrounds |-> b]

present == partialize(project, actors, backgrounds)
presentNext == partialize(project', actors', backgrounds')

\* variants of _handleSet: the newest entry is dropped at the limit; the newest
\* entry is a reference to the live slice and changes with it
handleSetDropNewest(past, pastState) ==
  (IF Len(past) >= limit THEN SubSeq(past, 1, Len(past) - 1) ELSE past) \o <<pastState>>

handleSetAliased(past, pastState) ==
  LET kept == IF Len(past) >= limit THEN Tail(past) ELSE past
  IN [i \in 1 .. Len(kept) |-> IF i = Len(kept) THEN pastState ELSE kept[i]]
       \o <<pastState>>

\* _handleSet: called after every set() of the store with the slice as it was
\* before the set; drops the oldest entry at the limit, appends, clears future
handleSet(past, pastState) ==
  (IF Len(past) >= limit THEN Tail(past) ELSE past) \o <<pastState>>

\* one recorded set(): the wrapped set of the store config
Recorded(op) ==
  /\ pastStates' = handleSet(pastStates, present)
  /\ futureStates' = <<>>
  /\ lastOp' = op

\* variant of undo: the guard covers the pop only
undoUnguarded(past, cur, future) ==
  IF Len(past) > 0
  THEN [pastStates |-> SubSeq(past, 1, Len(past) - 1),
        present |-> past[Len(past)],
        futureStates |-> future \o <<cur>>]
  ELSE [pastStates |-> past, present |-> cur, futureStates |-> future \o <<cur>>]

\* the history after undo(): [pastStates, present, futureStates]
undo(past, cur, future) ==
  IF Len(past) > 0
  THEN [pastStates |-> SubSeq(past, 1, Len(past) - 1),
        present |-> past[Len(past)],
        futureStates |-> future \o <<cur>>]
  ELSE [pastStates |-> past, present |-> cur, futureStates |-> future]

\* variant of redo: the slice being left is not pushed onto the past
redoForgetful(past, cur, future) ==
  IF Len(future) > 0
  THEN [pastStates |-> past,
        present |-> future[Len(future)],
        futureStates |-> SubSeq(future, 1, Len(future) - 1)]
  ELSE [pastStates |-> past, present |-> cur, futureStates |-> future]

\* the history after redo()
redo(past, cur, future) ==
  IF Len(future) > 0
  THEN [pastStates |-> past \o <<cur>>,
        present |-> future[Len(future)],
        futureStates |-> SubSeq(future, 1, Len(future) - 1)]
  ELSE [pastStates |-> past, present |-> cur, futureStates |-> future]

\* variant of userSet: the snapshot replaces the store state
ApplyHistoryReplace(h, op) ==
  /\ project' = h.present.project
  /\ actors' = h.present.actors
  /\ backgrounds' = h.present.backgrounds
  /\ pastStates' = h.pastStates
  /\ futureStates' = h.futureStates
  /\ lastOp' = op
  /\ playback' = initialPlayback
  /\ ui' = initialUI
  /\ audioBuffer' = NoAudio
  /\ audioFile' = NoAudio
  /\ UNCHANGED nextId

\* userSet(nextState): the inner set merges the snapshot into the store
ApplyHistory(h, op) ==
  /\ project' = h.present.project
  /\ actors' = h.present.actors
  /\ backgrounds' = h.present.backgrounds
  /\ pastStates' = h.pastStates
  /\ futureStates' = h.futureStates
  /\ lastOp' = op
  /\ UNCHANGED <<playback, ui, audioBuffer, audioFile, nextId>>

Undo == ApplyHistory(undo(pastStates, present, futureStates), "undo")

Redo == ApplyHistory(redo(pastStates, present, futureStates), "redo")

----------------------------------------------------------------------------
(* Project actions *)

SetProject(updates) ==
  /\ project' = Spread(project, updates)
  /\ Recorded("setProject")
  /\ UNCHANGED <<actors, backgrounds, playback, ui, audioBuffer, audioFile, nextId>>

ResetProject ==
  /\ project' = initialProject
  /\ actors' = <<>>
  /\ backgrounds' = <<>>
  /\ playback' = initialPlayback
  /\ ui' = initialUI
  /\ audioBuffer' = NoAudio
  /\ audioFile' = NoAudio
  /\ Recorded("resetProject")
  /\ UNCHANGED nextId

\* variant of loadProject: the history is cleared
LoadProjectClearing(p, a, b) ==
  /\ project' = p
  /\ actors' = a
  /\ backgrounds' = b
  /\ ui' = initialUI
  /\ pastStates' = <<>>
  /\ futureStates' = <<>>
  /\ lastOp' = "loadProject"
  /\ UNCHANGED <<playback, audioBuffer, audioFile, nextId>>

LoadProject(p, a, b) ==
  /\ project' = p
  /\ actors' = a
  /\ backgrounds' = b
  /\ ui' = initialUI
  /\ Recorded("loadProject")
  /\ UNCHANGED <<playback, audioBuffer, audioFile, nextId>>

----------------------------------------------------------------------------
(* Actor actions *)

newActor(id, label) ==
  [id |-> id, label |-> label, shape |-> NoShape, keyframes |-> <<>>,
   interpolation |-> "step"]

AddActor(label) ==
  /\ actors' = Append(actors, newActor(nextId, label))
  /\ nextId' = nextId + 1
  /\ Recorded("addActor")
  /\ UNCHANGED <<project, backgrounds, playback, ui, audioBuffer, audioFile>>

RemoveActor(id) ==
  /\ actors' = SelectSeq(actors, LAMBDA a : a.id # id)
  /\ ui' = IF ui.selectedActorId = id
           THEN Spread(ui, [selectedActorId |-> NullId])
           ELSE ui
  /\ Recorded("removeActor")
  /\ UNCHANGED <<project, backgrounds, playback, audioBuffer, audioFile, nextId>>

\* variant of updateActor: the targeted actor is rebuilt from its id and label
UpdateActorRebuilt(id, updates) ==
  /\ actors' = Map(actors, LAMBDA a :
                  IF a.id = id THEN Spread(newActor(a.id, a.label), updates) ELSE a)
  /\ Recorded("updateActor")
  /\ UNCHANGED <<project, backgrounds, playback, ui, audioBuffer, audioFile, nextId>>

UpdateActor(id, updates) ==
  /\ actors' = Map(actors, LAMBDA a : IF a.id = id THEN Spread(a, updates) ELSE a)
  /\ Recorded("updateActor")
  /\ UNCHANGED <<project, backgrounds, playback, ui, audioBuffer, audioFile, nextId>>

SetActorShape(actorId, shape) ==
  /\ actors' = Map(actors, LAMBDA a :
                  IF a.id = actorId THEN Spread(a, [shape |-> shape]) ELSE a)
  /\ Recorded("setActorShape")
  /\ UNCHANGED <<project, backgrounds, playback, ui, audioBuffer, audioFile, nextId>>

----------------------------------------------------------------------------
(* Keyframe actions *)

\* variants of addKeyframe: without the sort; without the filter
newKeyframesUnsorted(keyframes, keyframe) ==
  Append(SelectSeq(keyframes, LAMBDA k : k.time # keyframe.time), keyframe)

newKeyframesUnfiltered(keyframes, keyframe) ==
  SortByTime(Append(keyframes, keyframe))

\* addKeyframe, for the targeted actor: drop the keyframe at the same time,
\* append the new one, sort by time
newKeyframes(keyframes, keyframe) ==
  SortByTime(Append(SelectSeq(keyframes, LAMBDA k : k.time # keyframe.time),
                    keyframe))

AddKeyframe(actorId, keyframe) ==
  /\ actors' = Map(actors, LAMBDA a :
                  IF a.id # actorId THEN a
                  ELSE Spread(a, [keyframes |-> newKeyframes(a.keyframes, keyframe)]))
  /\ Recorded("addKeyframe")
  /\ UNCHANGED <<project, backgrounds, playback, ui, audioBuffer, audioFile, nextId>>

RemoveKeyframe(actorId, time) ==
  /\ actors' = Map(actors, LAMBDA a :
                  IF a.id = actorId
                  THEN Spread(a, [keyframes |->
                                    SelectSeq(a.keyframes, LAMBDA k : k.time # time)])
                  ELSE a)
  /\ Recorded("removeKeyframe")
  /\ UNCHANGED <<project, backgrounds, playback, ui, audioBuffer, audioFile, nextId>>

UpdateKeyframe(actorId, time, value) ==
  /\ actors' = Map(actors, LAMBDA a :
                  IF a.id = actorId
                  THEN Spread(a, [keyframes |->
                         Map(a.keyframes, LAMBDA k :
                               IF k.time = time THEN Spread(k, [value |-> value])
                               ELSE k)])
                  ELSE a)
  /\ Recorded("updateKeyframe")
  /\ UNCHANGED <<project, backgrounds, playback, ui, audioBuffer, audioFile, nextId>>

----------------------------------------------------------------------------
(* Background actions *)

\* variant of the background literal: zIndex is the largest one in use
newBackgroundOnTop(id, dataUrl, width, height, maxZIndex) ==
  [id |-> id, dataUrl |-> dataUrl, x |-> 0, y |-> 0, width |-> width,
   height |-> height, zIndex |-> maxZIndex]

newBackground(id, dataUrl, width, height, maxZIndex) ==
  [id |-> id, dataUrl |-> dataUrl, x |-> 0, y |-> 0, width |-> width,
   height |-> height, zIndex |-> maxZIndex + 1]

\* addBackground calls set() once for the new background and, when the image
\* is larger than the canvas, a second time for the canvas size: the second
\* call records the slice the first call produced.
AddBackground(dataUrl, width, height) ==
  LET maxZIndex == MaxOf(0, Map(backgrounds, LAMBDA b : b.zIndex))
      currentSize == project.canvasSize
      added == Append(backgrounds,
                      newBackground(nextId, dataUrl, width, height, maxZIndex))
      afterFirst == handleSet(pastStates, present)
      larger == width > currentSize.width \/ height > currentSize.height
  IN /\ nextId' = nextId + 1
     /\ backgrounds' = added
     /\ project' =
          IF larger
          THEN Spread(project,
                 [canvasSize |-> [width |-> Max2(currentSize.width, width),
                                  height |-> Max2(currentSize.height, height)]])
          ELSE project
     /\ pastStates' =
          IF larger
          THEN handleSet(afterFirst, partialize(project, actors, added))
          ELSE afterFirst
     /\ futureStates' = <<>>
     /\ lastOp' = "addBackground"
     /\ UNCHANGED <<actors, playback, ui, audioBuffer, audioFile>>

RemoveBackground(id) ==
  /\ backgrounds' = SelectSeq(backgrounds, LAMBDA b : b.id # id)
  /\ ui' = IF ui.selectedBackgroundId = id
           THEN Spread(ui, [selectedBackgroundId |-> NullId])
           ELSE ui
  /\ Recorded("removeBackground")
  /\ UNCHANGED <<project, actors, playback, audioBuffer, audioFile, nextId>>

UpdateBackground(id, updates) ==
  /\ backgrounds' = Map(backgrounds, LAMBDA b :
                       IF b.id = id THEN Spread(b, updates) ELSE b)
  /\ Recorded("updateBackground")
  /\ UNCHANGED <<project, actors, playback, ui, audioBuffer, audioFile, nextId>>

----------------------------------------------------------------------------
(* Playback, UI and audio actions *)

SetPlayback(updates) ==
  /\ playback' = Spread(playback, updates)
  /\ Recorded("setPlayback")
  /\ UNCHANGED <<project, actors, backgrounds, ui, audioBuffer, audioFile, nextId>>

Play ==
  /\ playback' = Spread(playback, [isPlaying |-> TRUE])
  /\ Recorded("play")
  /\ UNCHANGED <<project, actors, backgrounds, ui, audioBuffer, audioFile, nextId>>

Pause ==
  /\ playback' = Spread(playback, [isPlaying |-> FALSE])
  /\ Recorded("pause")
  /\ UNCHANGED <<project, actors, backgrounds, ui, audioBuffer, audioFile, nextId>>

\* variant of seek: the time is stored as given
SeekUnclamped(time) ==
  /\ playback' = Spread(playback, [currentTime |-> time])
  /\ Recorded("seek")
  /\ UNCHANGED <<project, actors, backgrounds, ui, audioBuffer, audioFile, nextId>>

Seek(time) ==
  /\ playback' = Spread(playback,
                   [currentTime |-> Max2(0, Min2(time, playback.duration))])
  /\ Recorded("seek")
  /\ UNCHANGED <<project, actors, backgrounds, ui, audioBuffer, audioFile, nextId>>

SetUI(updates) ==
  /\ ui' = Spread(ui, updates)
  /\ Recorded("setUI")
  /\ UNCHANGED <<project, actors, backgrounds, playback, audioBuffer, audioFile, nextId>>

\* variant of selectActor: the background selection is kept
SelectActorOnly(id) ==
  /\ ui' = Spread(ui, [selectedActorId |-> id])
  /\ Recorded("selectActor")
  /\ UNCHANGED <<project, actors, backgrounds, playback, audioBuffer, audioFile, nextId>>

SelectActor(id) ==
  /\ ui' = Spread(ui, [selectedActorId |-> id, selectedBackgroundId |-> NullId])
  /\ Recorded("selectActor")
  /\ UNCHANGED <<project, actors, backgrounds, playback, audioBuffer, audioFile, nextId>>

SelectBackground(id) ==
  /\ ui' = Spread(ui, [selectedBackgroundId |-> id, selectedActorId |-> NullId])
  /\ Recorded("selectBackground")
  /\ UNCHANGED <<project, actors, backgrounds, playback, audioBuffer, audioFile, nextId>>

SetTool(tool) ==
  /\ ui' = Spread(ui, [tool |-> tool])
  /\ Recorded("setTool")
  /\ UNCHANGED <<project, actors, backgrounds, playback, audioBuffer, audioFile, nextId>>

SetZoom(zoom) ==
  /\ ui' = Spread(ui, [zoom |-> Max2(MinZoom, Min2(MaxZoom, zoom))])
  /\ Recorded("setZoom")
  /\ UNCHANGED <<project, actors, backgrounds, playback, audioBuffer, audioFile, nextId>>

SetAudioBuffer(buffer) ==
  /\ audioBuffer' = buffer
  /\ Recorded("setAudioBuffer")
  /\ UNCHANGED <<project, actors, backgrounds, playback, ui, audioFile, nextId>>

SetAudioFile(file) ==
  /\ audioFile' = file
  /\ Recorded("setAudioFile")
  /\ UNCHANGED <<project, actors, backgrounds, playback, ui, audioBuffer, nextId>>

----------------------------------------------------------------------------
(* Inputs of the callers *)

ActorIds == {actors[i].id : i \in 1 .. Len(actors)}
BackgroundIds == {backgrounds[i].id : i \in 1 .. Len(backgrounds)}

KeyFrames == [time : Times, value : Values]

ActorUpdates == {[label |-> "B"], [interpolation |-> "linear"]}

loadedActor ==
  [id |-> 101, label |-> "A", shape |-> "rect",
   keyframes |-> <<[time |-> 0, value |-> 1], [time |-> 1, value |-> 0]>>,
   interpolation |-> "linear"]

loadedBackground ==
  [id |-> 102, dataUrl |-> "img", x |-> 0, y |-> 0,
   width |-> 800, height |-> 600, zIndex |-> 1]

\* parsed project files handed to loadProject
LoadPayloads ==
  { [project |-> Spread(initialProject, [name |-> "Show"]),
     actors |-> <<loadedActor>>, backgrounds |-> <<loadedBackground>>],
    [project |-> initialProject, actors |-> <<>>, backgrounds |-> <<>>] }

\* ids a caller can pass for an actor: the actors' ids, one never issued and
\* the selected one (which can be the id of an actor that is gone)
ActorIdInputs == (ActorIds \cup {nextId, ui.selectedActorId}) \ {NullId}
BackgroundIdInputs == BackgroundIds \cup {nextId}

\* one more store action call within a bound
\* a store action called from a component: the toolbar's state stays
Call(bound) ==
  calls < bound /\ calls' = calls + 1 /\ UNCHANGED <<tickRate, cues, pageVars, canvasVars,
                 startPlaybackTimeRef>>

----------------------------------------------------------------------------
(* Spec: the store with every action *)

DoSetProject == Call(MaxCalls) /\ SetProject([name |-> "Show"])
DoResetProject == Call(MaxCalls) /\ ResetProject
DoLoadProject ==
  Call(MaxCalls) /\ \E f \in LoadPayloads : LoadProject(f.project, f.actors, f.backgrounds)
DoAddActor == Call(MaxCalls) /\ AddActor("A")
DoRemoveActor == Call(MaxCalls) /\ \E id \in ActorIdInputs : RemoveActor(id)
DoUpdateActor ==
  Call(MaxCalls) /\ \E id \in ActorIdInputs, u \in ActorUpdates : UpdateActor(id, u)
DoSetActorShape ==
  Call(MaxCalls) /\ \E id \in ActorIdInputs, sh \in Shapes : SetActorShape(id, sh)
DoAddKeyframe ==
  Call(MaxCalls) /\ \E id \in ActorIdInputs, k \in {[time |-> 1, value |-> 1], [time |-> 0, value |-> 0]} :
    AddKeyframe(id, k)
DoRemoveKeyframe ==
  Call(MaxCalls) /\ \E id \in ActorIdInputs, t \in {0, 1} : RemoveKeyframe(id, t)
DoUpdateKeyframe ==
  Call(MaxCalls) /\ \E id \in ActorIdInputs, t \in {0, 1} : UpdateKeyframe(id, t, 1)
DoAddBackground ==
  Call(MaxCalls) /\ \E sz \in ImageSizes : AddBackground("img", sz[1], sz[2])
DoRemoveBackground == Call(MaxCalls) /\ \E id \in BackgroundIdInputs : RemoveBackground(id)
DoUpdateBackground ==
  Call(MaxCalls) /\ \E id \in BackgroundIdInputs : UpdateBackground(id, [x |-> 10])
DoSetPlayback ==
  Call(MaxCalls) /\ \E d \in Durations : SetPlayback([duration |-> d, currentTime |-> 0])
DoPlay == Call(MaxCalls) /\ Play
DoPause == Call(MaxCalls) /\ Pause
DoSeek == Call(MaxCalls) /\ \E t \in SeekInputs : Seek(t)
DoSetUI == Call(MaxCalls) /\ SetUI([scrollX |-> 40])
DoSelectActor == Call(MaxCalls) /\ \E id \in ActorIds \cup {NullId} : SelectActor(id)
DoSelectBackground ==
  Call(MaxCalls) /\ \E id \in BackgroundIds \cup {NullId} : SelectBackground(id)
DoSetTool == Call(MaxCalls) /\ \E t \in Tools \ {ui.tool} : SetTool(t)
DoSetZoom == Call(MaxCalls) /\ \E z \in ZoomInputs : SetZoom(z)
DoSetAudioBuffer == Call(MaxCalls) /\ SetAudioBuffer("buffer")
DoSetAudioFile == Call(MaxCalls) /\ SetAudioFile("file")
DoUndo == Undo /\ UNCHANGED <<calls, tickRate, cues, pageVars, canvasVars,
                 startPlaybackTimeRef>>
DoRedo == Redo /\ UNCHANGED <<calls, tickRate, cues, pageVars, canvasVars,
                 startPlaybackTimeRef>>

Next ==
  \/ DoSetProject
  \/ DoResetProject
  \/ DoLoadProject
  \/ DoAddActor
  \/ DoRemoveActor
  \/ DoUpdateActor
  \/ DoSetActorShape
  \/ DoAddKeyframe
  \/ DoRemoveKeyframe
  \/ DoUpdateKeyframe
  \/ DoAddBackground
  \/ DoRemoveBackground
  \/ DoUpdateBackground
  \/ DoSetPlayback
  \/ DoPlay
  \/ DoPause
  \/ DoSeek
  \/ DoSetUI
  \/ DoSelectActor
  \/ DoSelectBackground
  \/ DoSetTool
  \/ DoSetZoom
  \/ DoSetAudioBuffer
  \/ DoSetAudioFile
  \/ DoUndo
  \/ DoRedo

Spec == Init /\ [][Next]_vars

----------------------------------------------------------------------------
(* SpecSel: adding, removing and selecting actors and backgrounds, loading *)
(* and resetting the project, undo and redo                                *)

SelAddActor == Call(MaxSelCalls) /\ AddActor("A")
SelRemoveActor == Call(MaxSelCalls) /\ \E id \in ActorIds : RemoveActor(id)
SelSelectActor == Call(MaxSelCalls) /\ \E id \in ActorIds : SelectActor(id)
SelAddBackground ==
  Call(MaxSelCalls) /\ \E sz \in ImageSizes : AddBackground("img", sz[1], sz[2])
SelRemoveBackground == Call(MaxSelCalls) /\ \E id \in BackgroundIds : RemoveBackground(id)
SelSelectBackground == Call(MaxSelCalls) /\ \E id \in BackgroundIds : SelectBackground(id)
SelLoadProject ==
  Call(MaxSelCalls) /\ \E f \in LoadPayloads : LoadProject(f.project, f.actors, f.backgrounds)
SelResetProject == Call(MaxSelCalls) /\ ResetProject

NextSel ==
  \/ SelAddActor
  \/ SelRemoveActor
  \/ SelSelectActor
  \/ SelAddBackground
  \/ SelRemoveBackground
  \/ SelSelectBackground
  \/ SelLoadProject
  \/ SelResetProject
  \/ DoUndo
  \/ DoRedo

SpecSel == Init /\ [][NextSel]_vars

----------------------------------------------------------------------------
(* SpecKf: actors and their keyframes, undo and redo, from the empty project *)

UsedLabels == {actors[i].label : i \in 1 .. Len(actors)}

KfAddActor == Call(MaxKfCalls) /\ \E l \in Labels \ UsedLabels : AddActor(l)
KfAddKeyframe ==
  Call(MaxKfCalls) /\ \E id \in ActorIds, k \in KeyFrames : AddKeyframe(id, k)
KfRemoveKeyframe ==
  Call(MaxKfCalls) /\ \E id \in ActorIds, t \in Times : RemoveKeyframe(id, t)
KfUpdateKeyframe ==
  Call(MaxKfCalls) /\ \E id \in ActorIds, t \in Times, v \in Values : UpdateKeyframe(id, t, v)

NextKf ==
  \/ KfAddActor
  \/ KfAddKeyframe
  \/ KfRemoveKeyframe
  \/ KfUpdateKeyframe
  \/ DoUndo
  \/ DoRedo

SpecKf == Init /\ [][NextKf]_vars

----------------------------------------------------------------------------
(* SpecHist: a run of distinct tracked mutations from the fresh store (each *)
(* widens the canvas by one), then undo and redo                            *)

HistSetProject ==
  /\ futureStates = <<>>
  /\ Call(MaxMutations)
  /\ SetProject([canvasSize |-> [width |-> project.canvasSize.width + 1,
                                 height |-> project.canvasSize.height]])

NextHist ==
  \/ HistSetProject
  \/ DoUndo
  \/ DoRedo

SpecHist == Init /\ [][NextHist]_vars

----------------------------------------------------------------------------
(* Numbers of the interpolation and of the cue export: exact rationals *)

Frac(n, d) == [n |-> n, d |-> d]
Rat(i) == Frac(i, 1)
Abs(i) == IF i < 0 THEN -i ELSE i

RECURSIVE GCD(_, _)
GCD(a, b) == IF b = 0 THEN a ELSE GCD(b, a % b)

\* lowest terms, positive denominator
Norm(x) ==
  LET g == GCD(Abs(x.n), Abs(x.d))
      sg == IF x.d < 0 THEN -1 ELSE 1
  IN Frac(sg * (x.n \div g), sg * (x.d \div g))

RatAdd(x, y) == Norm(Frac(x.n * y.d + y.n * x.d, x.d * y.d))
RatSub(x, y) == Norm(Frac(x.n * y.d - y.n * x.d, x.d * y.d))
RatMul(x, y) == Norm(Frac(x.n * y.n, x.d * y.d))
RatDiv(x, y) == Norm(Frac(x.n * y.d, x.d * y.n))
RatLeq(x, y) == x.n * y.d <= y.n * x.d

\* Math.round: the nearest integer, halves go up
MathRound(x) == (2 * x.n + x.d) \div (2 * x.d)

\* Math.round(value * 1000) / 1000
Round3(x) == Norm(Frac(MathRound(RatMul(x, Rat(Thousand))), Thousand))

\* Math.round(t * 1000) / 1000 for a time t in units
Round3Time(t) == UnitsPerMs * MathRound(Frac(t * Thousand, UnitsPerSecond))

----------------------------------------------------------------------------
(* getActorValueAtTime *)

\* the loop: before is the last keyframe of the list with time <= the query
\* time, after the first one with time >= it; <<>> stands for null
\* variant of the loop: before is the first keyframe with time <= the query time
beforeFirstMatch(keyframes, time) ==
  LET found == {i \in 1 .. Len(keyframes) : keyframes[i].time <= time}
  IN IF found = {} THEN <<>>
     ELSE <<keyframes[CHOOSE i \in found : \A j \in found : i <= j]>>

before(keyframes, time) ==
  LET found == {i \in 1 .. Len(keyframes) : keyframes[i].time <= time}
  IN IF found = {} THEN <<>>
     ELSE <<keyframes[CHOOSE i \in found : \A j \in found : j <= i]>>

after(keyframes, time) ==
  LET found == {i \in 1 .. Len(keyframes) : keyframes[i].time >= time}
  IN IF found = {} THEN <<>>
     ELSE <<keyframes[CHOOSE i \in found : \A j \in found : i <= j]>>

\* the parameter t of the linear case
linearT(b, a, time) == RatDiv(Rat(time - b.time), Rat(a.time - b.time))

\* variant of the switch: the linear parameter is not divided by the span
interpolateUndivided(b, a, time, interpolation) ==
  IF interpolation = "linear"
  THEN RatAdd(Rat(b.value), RatMul(Rat(time - b.time), Rat(a.value - b.value)))
  ELSE Rat(b.value)

\* variant of the switch: the linear case runs from after to before
interpolateReversed(b, a, time, interpolation) ==
  IF interpolation = "linear"
  THEN RatAdd(Rat(a.value), RatMul(linearT(b, a, time), Rat(b.value - a.value)))
  ELSE Rat(b.value)

\* the switch on the actor's interpolation
interpolate(b, a, time, interpolation) ==
  IF interpolation = "linear"
  THEN RatAdd(Rat(b.value), RatMul(linearT(b, a, time), Rat(a.value - b.value)))
  ELSE Rat(b.value)

\* variant: 0 before the first keyframe
getActorValueAtTimeZeroBefore(actor, time) ==
  LET keyframes == actor.keyframes
      b == before(keyframes, time)
      a == after(keyframes, time)
  IN IF keyframes = <<>> THEN Rat(0)
     ELSE IF b = <<>> THEN Rat(0)
     ELSE IF a = <<>> THEN Rat(b[1].value)
     ELSE IF b[1].time = a[1].time THEN Rat(b[1].value)
     ELSE interpolate(b[1], a[1], time, actor.interpolation)

getActorValueAtTime(actor, time) ==
  LET keyframes == actor.keyframes
      b == before(keyframes, time)
      a == after(keyframes, time)
  IN IF keyframes = <<>> THEN Rat(0)
     ELSE IF b = <<>> THEN (IF a = <<>> THEN Rat(0) ELSE Rat(a[1].value))
     ELSE IF a = <<>> THEN Rat(b[1].value)
     ELSE IF b[1].time = a[1].time THEN Rat(b[1].value)
     ELSE interpolate(b[1], a[1], time, actor.interpolation)

----------------------------------------------------------------------------
(* The toolbar: tick rate and cue export *)

\* the labels in the order of String.prototype.localeCompare
Collation == <<"A", "B">>
localeCompare(x, y) ==
  (CHOOSE i \in 1 .. Len(Collation) : Collation[i] = x)
    - (CHOOSE i \in 1 .. Len(Collation) : Collation[i] = y)

\* variant of the comparator: the time only
compareCuesByTime(x, y) == x.t - y.t

\* (a, b) => a.t - b.t || a.id.localeCompare(b.id)
compareCues(x, y) == IF x.t - y.t # 0 THEN x.t - y.t ELSE localeCompare(x.id, y.id)

\* Array.prototype.sort with the comparator (a stable sort)
RECURSIVE insertCue(_, _)
insertCue(sorted, c) ==
  IF sorted = <<>> THEN <<c>>
  ELSE IF compareCues(Head(sorted), c) <= 0
       THEN <<Head(sorted)>> \o insertCue(Tail(sorted), c)
       ELSE <<c>> \o sorted

RECURSIVE sortCues(_)
sortCues(list) ==
  IF list = <<>> THEN <<>>
  ELSE insertCue(sortCues(SubSeq(list, 1, Len(list) - 1)), list[Len(list)])

\* duration === 0: per actor the state at 0 and one cue per keyframe
RECURSIVE keyframeCues(_)
keyframeCues(as) ==
  IF as = <<>> THEN <<>>
  ELSE LET actor == Head(as)
       IN <<[t |-> 0, id |-> actor.label, state |-> getActorValueAtTime(actor, 0)]>>
          \o [i \in 1 .. Len(actor.keyframes) |->
                [t |-> actor.keyframes[i].time, id |-> actor.label,
                 state |-> Rat(actor.keyframes[i].value)]]
          \o keyframeCues(Tail(as))

\* the cues pushed for one value of the loop variable t
cuesAt(as, t) ==
  [i \in 1 .. Len(as) |->
    [t |-> Round3Time(t), id |-> as[i].label,
     state |-> Round3(getActorValueAtTime(as[i], t))]]

\* for (let t = 0; t <= duration; t += tickRate)
RECURSIVE sampledCues(_, _, _, _)
sampledCues(as, duration, rate, t) ==
  IF t <= duration
  THEN cuesAt(as, t) \o sampledCues(as, duration, rate, t + rate)
  ELSE <<>>

\* variant of generateCues: the sampling starts one tick after 0
generateCuesLate(as, pb, rate) ==
  LET duration == pb.duration
  IN sortCues(IF duration = 0 THEN keyframeCues(as)
              ELSE sampledCues(as, duration, rate, rate))

generateCues(as, pb, rate) ==
  LET duration == pb.duration
  IN sortCues(IF duration = 0 THEN keyframeCues(as)
              ELSE sampledCues(as, duration, rate, 0))

\* onChange of the tick rate input: parseFloat(value) || 0.1
SetTickRate(v) ==
  /\ tickRate' = IF v = 0 THEN DefaultTickRate ELSE v
  /\ lastOp' = "setTickRate"
  /\ UNCHANGED <<project, actors, backgrounds, playback, ui, audioBuffer, audioFile,
                 pastStates, futureStates, nextId, calls, cues, pageVars, canvasVars,
                 startPlaybackTimeRef>>

\* handleDownloadCues; the call returns when the sampling loop ends, which
\* it does when the tick rate is positive
DownloadCues ==
  /\ playback.duration = 0 \/ tickRate > 0
  /\ cues' = generateCues(actors, playback, tickRate)
  /\ lastOp' = "downloadCues"
  /\ UNCHANGED <<project, actors, backgrounds, playback, ui, audioBuffer, audioFile,
                 pastStates, futureStates, nextId, calls, tickRate, pageVars, canvasVars,
                 startPlaybackTimeRef>>

----------------------------------------------------------------------------
(* SpecCues: a project file is loaded, audio gives the duration, the tick *)
(* rate is edited and the cues are exported                               *)

CueTimes == <<0, 1, 4>>
Interpolations == {"step", "linear"}

\* the keyframe lists with at most one keyframe at each of CueTimes
CueKeyframeLists ==
  { SelectSeq([i \in 1 .. Len(CueTimes) |-> [time |-> CueTimes[i], value |-> f[i]]],
              LAMBDA k : k.value >= 0) : f \in [1 .. Len(CueTimes) -> {-1, 0, 1}] }

cueActor(id, label, keyframes, interpolation) ==
  [id |-> id, label |-> label, shape |-> NoShape, keyframes |-> keyframes,
   interpolation |-> interpolation]

FirstActors ==
  { cueActor(201, l, ks, ip) : l \in Labels, ks \in CueKeyframeLists, ip \in Interpolations }

SecondActors ==
  { cueActor(202, l, ks, "linear") :
      l \in Labels,
      ks \in { <<>>, <<[time |-> 1, value |-> 1]>>,
               <<[time |-> 0, value |-> 1], [time |-> 4, value |-> 0]>> } }

CuePayloads ==
  { [project |-> Spread(initialProject, [name |-> "Show"]), actors |-> as,
     backgrounds |-> <<>>] :
      as \in { <<x>> : x \in FirstActors }
               \cup { <<x, y>> : x \in FirstActors, y \in SecondActors } }

CueDurations == {3, 7}
TickRateInputs == {0, 1, 3}

CueLoadProject ==
  /\ Call(MaxCueCalls)
  /\ actors = <<>>
  /\ \E f \in CuePayloads : LoadProject(f.project, f.actors, f.backgrounds)
CueSetPlayback ==
  Call(MaxCueCalls) /\ \E d \in CueDurations : SetPlayback([duration |-> d])
CueSetTickRate == \E v \in TickRateInputs : SetTickRate(v)
CueDownloadCues == DownloadCues

NextCues ==
  \/ CueLoadProject
  \/ CueSetPlayback
  \/ CueSetTickRate
  \/ CueDownloadCues

SpecCues == Init /\ [][NextCues]_vars

----------------------------------------------------------------------------
(* SpecActor: actors, their keyframes and shape, and updateActor with every *)
(* kind of updates argument (Partial<Actor>)                                *)

AllActorUpdates == ActorUpdates \cup {[keyframes |-> <<>>], [shape |-> NoShape]}

ActAddActor == Call(MaxActorCalls) /\ \E l \in Labels \ UsedLabels : AddActor(l)
ActAddKeyframe ==
  Call(MaxActorCalls) /\ \E id \in ActorIds : AddKeyframe(id, [time |-> 1, value |-> 1])
ActSetActorShape ==
  Call(MaxActorCalls) /\ \E id \in ActorIds, sh \in Shapes : SetActorShape(id, sh)
ActUpdateActor ==
  Call(MaxActorCalls) /\ \E id \in ActorIdInputs, u \in AllActorUpdates : UpdateActor(id, u)

NextActor ==
  \/ ActAddActor
  \/ ActAddKeyframe
  \/ ActSetActorShape
  \/ ActUpdateActor

SpecActor == Init /\ [][NextActor]_vars

----------------------------------------------------------------------------
(* SpecBg: sequences of addBackground, with backgrounds removed and restacked *)

BgImageSizes == ImageSizes \cup {<<1000, 1200>>, <<2500, 1500>>}

BgAddBackground ==
  Call(MaxBgCalls) /\ \E sz \in BgImageSizes : AddBackground("img", sz[1], sz[2])
BgRemoveBackground == Call(MaxBgCalls) /\ \E id \in BackgroundIds : RemoveBackground(id)
BgUpdateBackground ==
  Call(MaxBgCalls) /\ \E id \in BackgroundIds, z \in {-1, 5} : UpdateBackground(id, [zIndex |-> z])

NextBg ==
  \/ BgAddBackground
  \/ BgRemoveBackground
  \/ BgUpdateBackground

SpecBg == Init /\ [][NextBg]_vars

----------------------------------------------------------------------------
(* Properties of the history *)

\* a step made by a store action (undo and redo leave calls alone)
StoreCall == calls' = calls + 1
UndoCall == calls' = calls /\ lastOp' = "undo"
RedoCall == calls' = calls /\ lastOp' = "redo"

Last(s) == s[Len(s)]

Reverse(s) == [i \in 1 .. Len(s) |-> s[Len(s) + 1 - i]]

history == [pastStates |-> pastStates, present |-> present, futureStates |-> futureStates]
historyNext == [pastStates |-> pastStates', present |-> presentNext, futureStates |-> futureStates']

\* C1: every store action that changes the tracked slice leaves the slice
\* it started from as the newest entry of the past, and an empty future
C1_PushesPreviousPresent ==
  [][(StoreCall /\ presentNext # present) =>
       /\ pastStates' # <<>>
       /\ Last(pastStates') = present
       /\ futureStates' = <<>>]_vars

\* C2: the past never holds more than limit snapshots and the oldest are the
\* ones dropped: after N mutations (calls, in SpecHist) the past and the
\* future together hold min(N, limit) snapshots, every past entry is the slice
\* one mutation before its successor, and when the past is used up the
\* present is the slice after mutation N - min(N, limit)
C2_HistoryBound ==
  LET n == Len(pastStates)
      width(i) == IF i = n + 1 THEN project.canvasSize.width
                  ELSE pastStates[i].project.canvasSize.width
  IN /\ n <= limit
     /\ n + Len(futureStates) = Min2(calls, limit)
     /\ \A i \in 1 .. n : width(i) + 1 = width(i + 1)
     /\ n = 0 => project.canvasSize.width = InitialWidth + calls - Min2(calls, limit)

C2_Witness ==
  /\ calls > limit
  /\ lastOp = "undo"
  /\ pastStates = <<>>
  /\ Len(futureStates) = limit

\* C3: undo with an empty past and redo with an empty future change neither
\* the tracked slice nor the past nor the future
C3_NoOpAtTheEnds ==
  [][/\ (UndoCall /\ pastStates = <<>>) => historyNext = history
     /\ (RedoCall /\ futureStates = <<>>) => historyNext = history]_vars

C3_Witness ==
  /\ lastOp = "undo"
  /\ pastStates = <<>>
  /\ futureStates = <<>>
  /\ calls = 0

\* C4: after an undo from a non-empty past, redo gives back the history the
\* undo started from, and a further undo gives the history after the first
C4_UndoRedoRoundTrip ==
  [][(UndoCall /\ pastStates # <<>>) =>
       LET u == historyNext
           ur == redo(u.pastStates, u.present, u.futureStates)
           uru == undo(ur.pastStates, ur.present, ur.futureStates)
       IN ur = history /\ uru = u]_vars

C4_Witness ==
  /\ lastOp = "undo"
  /\ pastStates # <<>>
  /\ futureStates # <<>>
  /\ Last(futureStates) # present

\* C5: undo and redo leave playback, the tool, zoom and scroll of ui, and the
\* audio buffer and file as they were
C5_UndoRedoFrame ==
  [][(UndoCall \/ RedoCall) =>
       /\ playback' = playback
       /\ ui'.tool = ui.tool
       /\ ui'.zoom = ui.zoom
       /\ ui'.scrollX = ui.scrollX
       /\ ui'.scrollY = ui.scrollY
       /\ audioBuffer' = audioBuffer
       /\ audioFile' = audioFile]_vars

C5_Witness ==
  /\ lastOp \in {"undo", "redo"}
  /\ futureStates # <<>>
  /\ playback # initialPlayback
  /\ ui.tool # initialUI.tool
  /\ audioBuffer # NoAudio

UntrackedOps ==
  {"seek", "play", "pause", "setPlayback", "selectActor", "selectBackground",
   "setTool", "setZoom", "setUI", "setAudioBuffer", "setAudioFile"}

\* C6: the playback, UI and audio actions leave the past and the future as
\* they were
C6_UntrackedLeaveHistory ==
  [][(StoreCall /\ lastOp' \in UntrackedOps) =>
       /\ pastStates' = pastStates
       /\ futureStates' = futureStates]_vars

\* C7: the selected actor is null or an actor of the list, and the selected
\* background is null or a background of the list
C7_SelectionValid ==
  /\ ui.selectedActorId \in ActorIds \cup {NullId}
  /\ ui.selectedBackgroundId \in BackgroundIds \cup {NullId}

\* C8: no step changes a snapshot the history keeps: a store action leaves
\* the entries of the past in place (dropping the oldest only at the limit),
\* and undo and redo move the entries between past, present and future
\* without changing any
timeline == pastStates \o <<present>> \o Reverse(futureStates)
timelineNext == pastStates' \o <<presentNext>> \o Reverse(futureStates')

----------------------------------------------------------------------------
(* Properties of the keyframe actions *)

StrictlyAscending(keyframes) ==
  \A i, j \in 1 .. Len(keyframes) : i < j => keyframes[i].time < keyframes[j].time

\* C9: every actor's keyframes are strictly ascending by time
C9_KeyframesAscending ==
  \A i \in 1 .. Len(actors) : StrictlyAscending(actors[i].keyframes)

\* an addKeyframe has put a keyframe in front of the ones the actor had
C9_Witness ==
  /\ lastOp = "addKeyframe"
  /\ pastStates # <<>>
  /\ \E i \in 1 .. Len(actors) :
       LET earlier == Last(pastStates).actors
       IN /\ Len(earlier) >= i
          /\ Len(earlier[i].keyframes) >= 2
          /\ Len(actors[i].keyframes) = Len(earlier[i].keyframes) + 1
          /\ actors[i].keyframes[1].time < earlier[i].keyframes[1].time

AtTime(keyframes, t) == SelectSeq(keyframes, LAMBDA k : k.time = t)
NotAtTime(keyframes, t) == SelectSeq(keyframes, LAMBDA k : k.time # t)

\* C10: addKeyframe(a, k) leaves a with exactly one keyframe at k.time, with
\* k's value, leaves a's keyframes at other times and a's other fields
\* unchanged, and leaves every other actor unchanged
C10_AddKeyframeOverwrites ==
  [][\A id \in ActorIds, k \in KeyFrames :
       (StoreCall /\ AddKeyframe(id, k)) =>
         /\ Len(actors') = Len(actors)
         /\ \A i \in 1 .. Len(actors) :
              IF actors[i].id = id
              THEN /\ AtTime(actors'[i].keyframes, k.time) = <<k>>
                   /\ NotAtTime(actors'[i].keyframes, k.time)
                        = NotAtTime(actors[i].keyframes, k.time)
                   /\ actors'[i] = Spread(actors[i], [keyframes |-> actors'[i].keyframes])
              ELSE actors'[i] = actors[i]]_vars

\* an addKeyframe has replaced the value of a keyframe of one of two actors
C10_Witness ==
  /\ lastOp = "addKeyframe"
  /\ pastStates # <<>>
  /\ Len(actors) >= 2
  /\ \E i \in 1 .. Len(actors) :
       LET earlier == Last(pastStates).actors
       IN /\ Len(earlier) >= i
          /\ Len(actors[i].keyframes) = Len(earlier[i].keyframes)
          /\ actors[i].keyframes # earlier[i].keyframes

----------------------------------------------------------------------------
(* Properties of the actor and background actions *)

HasKeyframeAt(id, t) ==
  \E i \in 1 .. Len(actors) :
    actors[i].id = id /\ AtTime(actors[i].keyframes, t) # <<>>

\* C11: the actor and keyframe actions called with an id that no actor has,
\* and removeKeyframe and updateKeyframe called with a time at which the
\* actor has no keyframe, leave project, actors, backgrounds and ui as they were
C11_MissingTargetNoOp ==
  [][\A id \in ActorIdInputs :
       /\ ( /\ id \notin ActorIds
            /\ StoreCall
            /\ \/ RemoveActor(id)
               \/ \E u \in AllActorUpdates : UpdateActor(id, u)
               \/ \E k \in KeyFrames : AddKeyframe(id, k)
               \/ \E t \in Times : RemoveKeyframe(id, t)
               \/ \E t \in Times, v \in Values : UpdateKeyframe(id, t, v) )
          => UNCHANGED <<project, actors, backgrounds, ui>>
       /\ \A t \in Times :
            ( /\ id \in ActorIds
              /\ ~HasKeyframeAt(id, t)
              /\ StoreCall
              /\ \/ RemoveKeyframe(id, t)
                 \/ \E v \in Values : UpdateKeyframe(id, t, v) )
            => UNCHANGED <<project, actors, backgrounds, ui>>]_vars

\* C12: one undo after addBackground gives back the backgrounds and the
\* canvas size the action started from, and no entry of the history holds the
\* new background together with the old canvas size
C12_AddBackgroundAtomic ==
  [][(StoreCall /\ lastOp' = "addBackground") =>
       /\ undo(pastStates', presentNext, futureStates').present = present
       /\ \A i \in 1 .. Len(pastStates') :
            pastStates'[i].backgrounds = backgrounds'
              => pastStates'[i].project.canvasSize = project'.canvasSize]_vars

\* C13: addBackground(img, w, h) appends one background whose zIndex is
\* max(0, the zIndex values in use) + 1, above every zIndex in use, and makes
\* the canvas (max(old width, w), max(old height, h)); the canvas never
\* shrinks and holds every background
C13_AddBackgroundGrows ==
  [][\A sz \in BgImageSizes :
       (StoreCall /\ AddBackground("img", sz[1], sz[2])) =>
         LET n == Len(backgrounds)
             new == backgrounds'[n + 1]
             old == project.canvasSize
             size == project'.canvasSize
         IN /\ Len(backgrounds') = n + 1
            /\ SubSeq(backgrounds', 1, n) = backgrounds
            /\ new.width = sz[1] /\ new.height = sz[2]
            /\ new.zIndex >= 1
            /\ \A i \in 1 .. n : new.zIndex > backgrounds[i].zIndex
            /\ \/ new.zIndex = 1
               \/ \E i \in 1 .. n : new.zIndex = backgrounds[i].zIndex + 1
            /\ size.width = Max2(old.width, sz[1])
            /\ size.height = Max2(old.height, sz[2])
            /\ size.width >= old.width /\ size.height >= old.height
            /\ \A i \in 1 .. n + 1 :
                 /\ size.width >= backgrounds'[i].width
                 /\ size.height >= backgrounds'[i].height]_vars

\* a second image has grown the canvas in one dimension only, above a
\* background that was restacked
C13_Witness ==
  /\ lastOp = "addBackground"
  /\ Len(backgrounds) >= 2
  /\ backgrounds[1].zIndex > 1
  /\ project.canvasSize.width > InitialWidth
  /\ project.canvasSize.height > InitialHeight
  /\ pastStates # <<>>
  /\ Last(pastStates).project.canvasSize.height = InitialHeight

ProtectedFields == {"id", "shape", "keyframes"}

UpdateActorKeeps(id, u) ==
  /\ Len(actors') = Len(actors)
  /\ \A i \in 1 .. Len(actors) :
       IF actors[i].id = id
       THEN /\ actors'[i].id = actors[i].id
            /\ actors'[i].shape = actors[i].shape
            /\ actors'[i].keyframes = actors[i].keyframes
       ELSE actors'[i] = actors[i]

\* C14 as claimed: updateActor(id, fields) leaves the shape, the keyframes
\* and the id of the targeted actor and every other actor unchanged, for
\* every fields argument
C14_UpdateActorFrame ==
  [][\A id \in ActorIdInputs, u \in AllActorUpdates :
       (StoreCall /\ UpdateActor(id, u)) => UpdateActorKeeps(id, u)]_vars

\* C14 as amended: it does so for every fields argument without an id, shape
\* or keyframes key; every other actor is unchanged for every argument
C14_UpdateActorFrameAmended ==
  [][\A id \in ActorIdInputs, u \in AllActorUpdates :
       (StoreCall /\ UpdateActor(id, u)) =>
         /\ (DOMAIN u) \cap ProtectedFields = {} => UpdateActorKeeps(id, u)
         /\ Len(actors') = Len(actors)
         /\ \A i \in 1 .. Len(actors) : actors[i].id # id => actors'[i] = actors[i]]_vars

\* an updateActor has changed one of two actors that has keyframes and a shape
C14_Witness ==
  /\ lastOp = "updateActor"
  /\ Len(actors) = 2
  /\ pastStates # <<>>
  /\ Last(pastStates).actors # actors
  /\ \E i \in 1 .. 2 :
       /\ actors[i] # Last(pastStates).actors[i]
       /\ actors[i].keyframes # <<>>

----------------------------------------------------------------------------
(* Properties of getActorValueAtTime *)

\* the list on hand is the one generateCues returned for the present state
Exported == lastOp = "downloadCues"
Sampled == Exported /\ playback.duration > 0 /\ tickRate > 0

QueryTimes == 0 .. MaxQueryTime
UnitValues(keyframes) == \A i \in 1 .. Len(keyframes) : keyframes[i].value \in 0 .. 1
\* the actors the interpolation claims are about
WellFormed(actor) == StrictlyAscending(actor.keyframes) /\ UnitValues(actor.keyframes)
InUnit(x) == RatLeq(Rat(0), x) /\ RatLeq(x, Rat(1))
RatEq(x, y) == x.n * y.d = y.n * x.d
Between(x, lo, hi) ==
  \/ RatLeq(Rat(lo), x) /\ RatLeq(x, Rat(hi))
  \/ RatLeq(Rat(hi), x) /\ RatLeq(x, Rat(lo))
\* the keyframes (0, 0), (span, 1)
rampActor(span, interpolation) ==
  cueActor(1, "A", <<[time |-> 0, value |-> 0], [time |-> span, value |-> 1]>>,
           interpolation)

\* C15: for keyframes ascending in time with unique times and values in
\* [0, 1], getActorValueAtTime is in [0, 1] at every time in step and in
\* linear mode, the linear parameter t is in [0, 1], and with no keyframes
\* the result is 0
C15_ValueInUnitRange ==
  \A i \in 1 .. Len(actors), time \in QueryTimes :
    LET actor == actors[i]
        b == before(actor.keyframes, time)
        a == after(actor.keyframes, time)
    IN /\ actor.keyframes = <<>> => getActorValueAtTime(actor, time) = Rat(0)
       /\ WellFormed(actor) =>
            /\ InUnit(getActorValueAtTime(actor, time))
            /\ (b # <<>> /\ a # <<>> /\ b[1].time # a[1].time)
                 => InUnit(linearT(b[1], a[1], time))

\* the export has sampled a linear actor between two keyframes
C15_Witness ==
  /\ Sampled
  /\ \E i \in 1 .. Len(actors) :
       /\ actors[i].interpolation = "linear"
       /\ Len(actors[i].keyframes) >= 2
       /\ \E k \in 0 .. playback.duration \div tickRate :
            getActorValueAtTime(actors[i], k * tickRate) \notin {Rat(0), Rat(1)}
  /\ \E j \in 1 .. Len(cues) : cues[j].state \notin {Rat(0), Rat(1)}

\* C16: at and before the first keyframe the result is the first keyframe's
\* value, at and after the last keyframe the last one's; a single keyframe
\* (t0, v0) gives v0 at every time in both modes
C16_HeldOutsideSpan ==
  \A i \in 1 .. Len(actors), time \in QueryTimes :
    LET actor == actors[i]
        kfs == actor.keyframes
    IN (WellFormed(actor) /\ kfs # <<>>) =>
         /\ time <= kfs[1].time => getActorValueAtTime(actor, time) = Rat(kfs[1].value)
         /\ time >= kfs[Len(kfs)].time
              => getActorValueAtTime(actor, time) = Rat(kfs[Len(kfs)].value)
         /\ Len(kfs) = 1 => getActorValueAtTime(actor, time) = Rat(kfs[1].value)

\* without audio the export has held the value 1 of a first keyframe that
\* lies after time 0, for an actor whose last keyframe has another value
C16_Witness ==
  /\ Exported
  /\ Len(actors) >= 1
  /\ playback.duration = 0
  /\ Len(actors[1].keyframes) >= 2
  /\ actors[1].keyframes[1].time > 0
  /\ actors[1].keyframes[1].value = 1
  /\ actors[1].keyframes[Len(actors[1].keyframes)].value = 0
  /\ \E j \in 1 .. Len(cues) : cues[j].t = 0 /\ cues[j].state = Rat(1)

\* C17: in step mode, at every time t at or after the first keyframe the
\* result is the value of the keyframe with the greatest time <= t; the
\* keyframes (0, 0), (10, 1) give 0 at 9.999 and 1 at 10 (in milliseconds
\* here)
C17_StepHoldsLastKeyframe ==
  /\ \A i \in 1 .. Len(actors), time \in QueryTimes :
       LET actor == actors[i]
           kfs == actor.keyframes
       IN (WellFormed(actor) /\ actor.interpolation = "step"
             /\ kfs # <<>> /\ time >= kfs[1].time) =>
            \E k \in 1 .. Len(kfs) :
              /\ kfs[k].time <= time
              /\ \A j \in 1 .. Len(kfs) : kfs[j].time <= time => kfs[j].time <= kfs[k].time
              /\ getActorValueAtTime(actor, time) = Rat(kfs[k].value)
  /\ getActorValueAtTime(rampActor(10 * Thousand, "step"), 10 * Thousand - 1) = Rat(0)
  /\ getActorValueAtTime(rampActor(10 * Thousand, "step"), 10 * Thousand) = Rat(1)

\* the export has sampled a step actor with three keyframes past the second
C17_Witness ==
  /\ Sampled
  /\ Len(actors) >= 1
  /\ actors[1].interpolation = "step"
  /\ Len(actors[1].keyframes) = 3
  /\ actors[1].keyframes[1].value # actors[1].keyframes[2].value
  /\ actors[1].keyframes[2].value # actors[1].keyframes[3].value
  /\ tickRate <= 3
  /\ playback.duration > actors[1].keyframes[3].time

\* C18: in linear mode, between consecutive keyframes (t1, v1), (t2, v2) the
\* result at t1 <= t <= t2 is v1 + ((t - t1) / (t2 - t1)) * (v2 - v1): v1 at
\* t1, v2 at t2, between v1 and v2; the keyframes (0, 0), (10, 1) give 0.5
\* at t = 5
C18_LinearBetweenKeyframes ==
  /\ \A i \in 1 .. Len(actors), time \in QueryTimes :
       LET actor == actors[i]
           kfs == actor.keyframes
       IN (WellFormed(actor) /\ actor.interpolation = "linear") =>
            \A k \in 1 .. Len(kfs) - 1 :
              LET t1 == kfs[k].time
                  v1 == kfs[k].value
                  t2 == kfs[k + 1].time
                  v2 == kfs[k + 1].value
                  v == getActorValueAtTime(actor, time)
              IN (t1 <= time /\ time <= t2) =>
                   /\ RatEq(v, Frac(v1 * (t2 - t1) + (time - t1) * (v2 - v1), t2 - t1))
                   /\ time = t1 => v = Rat(v1)
                   /\ time = t2 => v = Rat(v2)
                   /\ Between(v, v1, v2)
  /\ getActorValueAtTime(rampActor(10, "linear"), 5) = Frac(1, 2)

\* the export has sampled a linear actor a third of the way down from one
\* keyframe to the next
C18_Witness ==
  /\ Sampled
  /\ \E i \in 1 .. Len(actors) :
       /\ actors[i].interpolation = "linear"
       /\ \E k \in 1 .. Len(actors[i].keyframes) - 1 :
            /\ actors[i].keyframes[k].value = 1
            /\ actors[i].keyframes[k + 1].value = 0
            /\ actors[i].keyframes[k + 1].time - actors[i].keyframes[k].time = 3
  /\ \E j \in 1 .. Len(cues) : cues[j].state = Frac(667, Thousand)

----------------------------------------------------------------------------
(* Properties of the cue export *)

\* the lexicographic order of the labels
LexLeq(x, y) == x = y \/ (x = "A" /\ y = "B")

Count(list, c) == Cardinality({i \in 1 .. Len(list) : list[i] = c})
Range(list) == {list[i] : i \in 1 .. Len(list)}
SameCues(x, y) ==
  /\ Len(x) = Len(y)
  /\ \A c \in Range(x) \cup Range(y) : Count(x, c) = Count(y, c)

RECURSIVE ExpectedCues(_, _)
ExpectedCues(k, n) ==
  IF k > n THEN <<>>
  ELSE [i \in 1 .. Len(actors) |->
         [t |-> Round3Time(k * tickRate), id |-> actors[i].label,
          state |-> Round3(getActorValueAtTime(actors[i], k * tickRate))]]
       \o ExpectedCues(k + 1, n)

----------------------------------------------------------------------------
(* SpecLoop: generateCues pass by pass. JavaScript runs the call to its    *)
(* end before any other handler: while the loop runs nothing else happens. *)

\* what onChange of the tick rate input can be given: the input has min
\* 0.001 and max 1, which constrain the form's validity and the spinner, not
\* the text typed
LoopTickRateInputs == TickRateInputs \cup {-1}
LoopPayloads == {f \in CuePayloads : Len(f.actors) <= 1}

\* handleDownloadCues calls generateCues: cues = [], and with duration === 0
\* the cues of the keyframes
BeginGenerateCues ==
  /\ ~loop.running
  /\ loop' = [running |-> TRUE, t |-> 0, passes |-> 0,
              cues |-> IF playback.duration = 0 THEN keyframeCues(actors) ELSE <<>>]
  /\ lastOp' = "generateCues"
  /\ UNCHANGED <<project, actors, backgrounds, playback, ui, audioBuffer, audioFile,
                 pastStates, futureStates, nextId, calls, tickRate, cues,
                 fileVars, canvasVars,
                 startPlaybackTimeRef>>

\* one pass of for (let t = 0; t <= duration; t += tickRate)
SamplePass ==
  /\ loop.running
  /\ playback.duration # 0
  /\ loop.t <= playback.duration
  /\ loop.passes < MaxPasses
  /\ loop' = [loop EXCEPT !.cues = @ \o cuesAt(actors, loop.t),
                          !.t = @ + tickRate,
                          !.passes = @ + 1]
  /\ lastOp' = "samplePass"
  /\ UNCHANGED <<project, actors, backgrounds, playback, ui, audioBuffer, audioFile,
                 pastStates, futureStates, nextId, calls, tickRate, cues,
                 fileVars, canvasVars,
                 startPlaybackTimeRef>>

\* the loop condition is false: cues.sort, return, and the download
EndGenerateCues ==
  /\ loop.running
  /\ playback.duration = 0 \/ loop.t > playback.duration
  /\ cues' = sortCues(loop.cues)
  /\ loop' = idleLoop
  /\ lastOp' = "downloadCues"
  /\ UNCHANGED <<project, actors, backgrounds, playback, ui, audioBuffer, audioFile,
                 pastStates, futureStates, nextId, calls, tickRate,
                 fileVars, canvasVars,
                 startPlaybackTimeRef>>

LoopLoadProject ==
  /\ ~loop.running
  /\ Call(MaxCueCalls)
  /\ actors = <<>>
  /\ \E f \in LoopPayloads : LoadProject(f.project, f.actors, f.backgrounds)
LoopSetPlayback == ~loop.running /\ CueSetPlayback
LoopSetTickRate == ~loop.running /\ \E v \in LoopTickRateInputs : SetTickRate(v)

NextLoop ==
  \/ LoopLoadProject
  \/ LoopSetPlayback
  \/ LoopSetTickRate
  \/ BeginGenerateCues
  \/ SamplePass
  \/ EndGenerateCues

SpecLoop == Init /\ [][NextLoop]_vars

\* C21: generateCues terminates for every duration >= 0 and every tick rate
\* the export dialog can store. The sampling loop runs while t <= duration,
\* duration does not change during the call, and only t += tickRate changes
\* t: the loop ends exactly when every pass brings t closer to the exit,
\* that is when every pass increases t.
C21_GenerateCuesTerminates == [][SamplePass => loop'.t > loop.t]_vars

----------------------------------------------------------------------------
(* JavaScript values and JSON texts                                         *)
(*                                                                          *)
(* An object is a record (an absent property is a field outside its         *)
(* DOMAIN), an array a sequence, null the string "null". A JSON text is the *)
(* tree of its tokens: [t |-> "object", v |-> members by key],              *)
(* [t |-> "array", v |-> items], and a literal [t |-> type, v |-> value].   *)
(* <<>> stands for "no value" and <<x>> for the value x in the variables    *)
(* timer, localStorage, download, data and pendingShape.                    *)

\* undefined in a slot that holds an object, and in one that holds a list
undefined == [undefined |-> TRUE]
undefinedList == <<undefined>>

has(o, k) == k \in DOMAIN o

\* the types of the project file
NumberType == [t |-> "number"]
StringType == [t |-> "string"]
\* Shape | null; a shape is a token of Shapes, written as a string
ShapeType == [t |-> "shape"]
ArrayType(of) == [t |-> "array", of |-> of]
ObjectType(fields) == [t |-> "object", fields |-> fields]

KeyFrameType == ObjectType([time |-> NumberType, value |-> NumberType])
ActorType ==
  ObjectType([id |-> NumberType, label |-> StringType, shape |-> ShapeType,
              shapes |-> ArrayType(ShapeType), keyframes |-> ArrayType(KeyFrameType),
              interpolation |-> StringType])
CanvasBackgroundType ==
  ObjectType([id |-> NumberType, dataUrl |-> StringType, x |-> NumberType,
              y |-> NumberType, width |-> NumberType, height |-> NumberType,
              zIndex |-> NumberType])
ProjectType ==
  ObjectType([name |-> StringType, songFilename |-> StringType,
              canvasSize |-> ObjectType([width |-> NumberType, height |-> NumberType])])
GrisFileType ==
  ObjectType([version |-> NumberType, project |-> ProjectType,
              actors |-> ArrayType(ActorType),
              backgrounds |-> ArrayType(CanvasBackgroundType)])

\* JSON.stringify(value) for a value of the given type: one member per own
\* property, one item per element
RECURSIVE JSONstringify(_, _)
JSONstringify(value, type) ==
  CASE type.t = "object" ->
         [t |-> "object",
          v |-> [k \in DOMAIN value |-> JSONstringify(value[k], type.fields[k])]]
    [] type.t = "array" ->
         [t |-> "array",
          v |-> [i \in 1 .. Len(value) |-> JSONstringify(value[i], type.of)]]
    [] OTHER -> [t |-> type.t, v |-> value]

\* a text that is no JSON
Garbage == [t |-> "garbage"]

\* JSON.parse(text) returns (it throws a SyntaxError otherwise)
parses(text) == text.t # "garbage"

RECURSIVE JSONparse(_)
JSONparse(text) ==
  CASE text.t = "object" -> [k \in DOMAIN text.v |-> JSONparse(text.v[k])]
    [] text.t = "array" -> [i \in DOMAIN text.v |-> JSONparse(text.v[i])]
    [] OTHER -> text.v

----------------------------------------------------------------------------
(* migrateGrisFile *)

GRIS_FILE_VERSION == 2

\* variant of the actor mapping: the legacy shape is dropped
migrateActorShapeless(actor) ==
  [id |-> actor.id, label |-> actor.label, shapes |-> <<>>,
   keyframes |-> IF has(actor, "keyframes") THEN actor.keyframes ELSE <<>>,
   interpolation |-> IF has(actor, "interpolation") /\ actor.interpolation # ""
                     THEN actor.interpolation ELSE "step"]

\* (actor: ActorV1) => ({id, label, shapes: actor.shape ? [actor.shape] : [],
\* keyframes: actor.keyframes || [], interpolation: actor.interpolation || 'step'})
migrateActor(actor) ==
  [id |-> actor.id, label |-> actor.label,
   shapes |-> IF has(actor, "shape") /\ actor.shape # NoShape
              THEN <<actor.shape>> ELSE <<>>,
   keyframes |-> IF has(actor, "keyframes") THEN actor.keyframes ELSE <<>>,
   interpolation |-> IF has(actor, "interpolation") /\ actor.interpolation # ""
                     THEN actor.interpolation ELSE "step"]

\* !file.version || file.version === 1, for a version that is a number
isLegacy(file) == ~has(file, "version") \/ file.version = 0 \/ file.version = 1

\* variant of migrateGrisFile: the result keeps the legacy version
migrateGrisFileUnstamped(file) ==
  IF isLegacy(file)
  THEN [version |-> 1,
        project |-> IF has(file, "project") THEN file.project ELSE undefined,
        backgrounds |-> IF has(file, "backgrounds") THEN file.backgrounds ELSE <<>>,
        actors |-> Map(IF has(file, "actors") THEN file.actors ELSE <<>>, migrateActor)]
  ELSE file

migrateGrisFile(file) ==
  IF isLegacy(file)
  THEN [version |-> GRIS_FILE_VERSION,
        project |-> IF has(file, "project") THEN file.project ELSE undefined,
        backgrounds |-> IF has(file, "backgrounds") THEN file.backgrounds ELSE <<>>,
        actors |-> Map(IF has(file, "actors") THEN file.actors ELSE <<>>, migrateActor)]
  ELSE file

----------------------------------------------------------------------------
(* SpecMigrate: a project file is read and parsed, and migrateGrisFile is  *)
(* applied to the result, once or again to its own result                  *)

FileShapes == Shapes \cup {"poly"}
FileKeyframeLists == {<<>>, <<[time |-> 0, value |-> 1], [time |-> 2, value |-> 0]>>}

\* actors of the legacy format, also with properties missing
LegacyActors(id) ==
  { [id |-> id, label |-> "A", shape |-> sh, keyframes |-> ks, interpolation |-> ip] :
      sh \in {NoShape} \cup FileShapes, ks \in FileKeyframeLists, ip \in Interpolations }
  \cup { [id |-> id, label |-> "B", shape |-> sh] : sh \in {NoShape} \cup FileShapes }
  \cup { [id |-> id, label |-> "B", keyframes |-> ks, interpolation |-> "linear"] :
           ks \in FileKeyframeLists }

\* actors of the current format
CurrentActors(id) ==
  { [id |-> id, label |-> "A", shapes |-> shs, keyframes |-> ks, interpolation |-> ip] :
      shs \in {<<>>, <<"rect">>, <<"poly", "rect">>},
      ks \in FileKeyframeLists, ip \in Interpolations }

FileActorLists ==
  {<<>>}
  \cup { <<a>> : a \in LegacyActors(201) \cup CurrentActors(201) }
  \cup { <<a, b>> : a \in LegacyActors(201),
                    b \in { [id |-> 202, label |-> "B", shape |-> sh, keyframes |-> <<>>,
                             interpolation |-> "step"] : sh \in {NoShape, "poly"} } }

FileBackgroundLists == {<<>>, <<loadedBackground>>}

\* the payloads without a version, also without backgrounds and without actors
UnversionedFiles ==
  { [project |-> Spread(initialProject, [name |-> "Show"]), actors |-> as,
     backgrounds |-> bs] : as \in FileActorLists, bs \in FileBackgroundLists }
  \cup { [project |-> initialProject, actors |-> as] : as \in FileActorLists }
  \cup { [project |-> initialProject, backgrounds |-> bs] : bs \in FileBackgroundLists }

MigrateFiles ==
  UnversionedFiles
  \cup { Spread(f, [version |-> v]) : f \in UnversionedFiles, v \in {0, 1, GRIS_FILE_VERSION} }

MigrateTexts == { JSONstringify(f, GrisFileType) : f \in MigrateFiles }

\* const data = JSON.parse(text)
ReadFile(text) ==
  /\ parses(text)
  /\ data' = <<[text |-> text, value |-> JSONparse(text), migrations |-> 0]>>
  /\ lastOp' = "parse"
  /\ UNCHANGED <<project, actors, backgrounds, playback, ui, audioBuffer, audioFile,
                 pastStates, futureStates, nextId, calls, tickRate, cues, loop,
                 page, timer, localStorage, download, canvasVars,
                 startPlaybackTimeRef>>

\* migrateGrisFile(data); migrations counts the calls
Migrate ==
  /\ data # <<>>
  /\ data[1].migrations < MaxMigrations
  /\ data' = <<[data[1] EXCEPT !.value = migrateGrisFile(@), !.migrations = @ + 1]>>
  /\ lastOp' = "migrateGrisFile"
  /\ UNCHANGED <<project, actors, backgrounds, playback, ui, audioBuffer, audioFile,
                 pastStates, futureStates, nextId, calls, tickRate, cues, loop,
                 page, timer, localStorage, download, canvasVars,
                 startPlaybackTimeRef>>

\* one file is picked
MigrateReadFile == data = <<>> /\ \E text \in MigrateTexts : ReadFile(text)

NextMigrate ==
  \/ MigrateReadFile
  \/ Migrate

SpecMigrate == Init /\ [][NextMigrate]_vars

\* the payload the file in data was parsed to
parsed == JSONparse(data[1].text)

\* y is the migration of the legacy payload x the claim describes; a property
\* the payload does not have cannot be preserved: keyframes, backgrounds and
\* actors that are absent come out as []
MigratedFrom(x, y) ==
  LET xs == IF has(x, "actors") THEN x.actors ELSE <<>>
  IN /\ y.version = 2
     /\ has(x, "project") => y.project = x.project
     /\ y.backgrounds = (IF has(x, "backgrounds") THEN x.backgrounds ELSE <<>>)
     /\ Len(y.actors) = Len(xs)
     /\ \A i \in 1 .. Len(xs) :
          /\ y.actors[i].id = xs[i].id
          /\ y.actors[i].label = xs[i].label
          /\ y.actors[i].keyframes
               = (IF has(xs[i], "keyframes") THEN xs[i].keyframes ELSE <<>>)
          /\ y.actors[i].shapes
               = (IF has(xs[i], "shape") /\ xs[i].shape # NoShape
                  THEN <<xs[i].shape>> ELSE <<>>)

\* C22: for every payload whose version is absent or 1, migrateGrisFile
\* returns a file of version 2 in which every actor has shapes = [shape] when
\* its legacy shape is non-null and shapes = [] otherwise, with the id, the
\* label and the keyframes of the actor, and with the project and the
\* backgrounds of the payload (missing keyframes and backgrounds read as []).
C22_LegacyMigrated ==
  (data # <<>> /\ data[1].migrations = 1
     /\ (~has(parsed, "version") \/ parsed.version = 1))
  => MigratedFrom(parsed, data[1].value)

\* a file without version with two actors, one with a shape and one without,
\* has been migrated
C22_Witness ==
  /\ data # <<>>
  /\ data[1].migrations = 1
  /\ ~has(parsed, "version")
  /\ has(parsed, "actors") /\ Len(parsed.actors) = 2
  /\ has(parsed.actors[1], "shape") /\ parsed.actors[1].shape = "rect"
  /\ has(parsed.actors[2], "shape") /\ parsed.actors[2].shape = NoShape
  /\ has(parsed.actors[1], "keyframes") /\ parsed.actors[1].keyframes # <<>>
  /\ data[1].value.actors[1].shapes = <<"rect">>
  /\ data[1].value.actors[2].shapes = <<>>

\* C23: migration is idempotent: migrating the result of a migration again
\* returns that result, for every legacy or current payload, and a payload
\* with the current version is returned unchanged.
C23_MigrateIdempotent ==
  data # <<>> =>
    /\ data[1].migrations = 2 => data[1].value = migrateGrisFile(parsed)
    /\ (data[1].migrations >= 1 /\ has(parsed, "version")
         /\ parsed.version = GRIS_FILE_VERSION)
       => data[1].value = parsed

\* a legacy file with a shape has been migrated twice
C23_Witness ==
  /\ data # <<>>
  /\ data[1].migrations = 2
  /\ has(parsed, "version") /\ parsed.version = 1
  /\ has(parsed, "actors") /\ Len(parsed.actors) >= 1
  /\ has(parsed.actors[1], "shape") /\ parsed.actors[1].shape = "poly"
  /\ data[1].value.version = GRIS_FILE_VERSION
  /\ data[1].value.actors[1].shapes = <<"poly">>

----------------------------------------------------------------------------
(* The pages: LandingPage (create, load, restore), EditorPage (autosave)   *)
(* and the toolbar's Save Project                                          *)

\* 4 * 1024 * 1024, the largest json.length the autosave writes
MaxAutosaveLength == 4 * 1024 * 1024

\* the data URL of a large image and the number of its characters
BigDataUrl == "big"
BigDataUrlLength == 5000000

stringLength(s) == IF s = BigDataUrl THEN BigDataUrlLength ELSE Len(s)

RECURSIVE SumOf(_, _)
SumOf(f, S) ==
  IF S = {} THEN 0
  ELSE LET k == CHOOSE x \in S : TRUE IN f[k] + SumOf(f, S \ {k})

\* json.length of the text without white space
RECURSIVE jsonLength(_)
jsonLength(text) ==
  LET keys == DOMAIN text.v
      commas == IF keys = {} THEN 0 ELSE Cardinality(keys) - 1
  IN CASE text.t = "object" ->
            2 + commas + SumOf([k \in keys |-> Len(k) + 3 + jsonLength(text.v[k])], keys)
       [] text.t = "array" ->
            2 + commas + SumOf([i \in keys |-> jsonLength(text.v[i])], keys)
       [] text.t = "number" -> Len(ToString(text.v))
       [] text.t = "string" -> stringLength(text.v) + 2
       [] text.t = "shape" -> IF text.v = NoShape THEN 4 ELSE Len(text.v) + 2
       [] OTHER -> 4

\* const data: GrisFile = { version: 1, project, actors, backgrounds }
grisFile(slice) ==
  [version |-> 1, project |-> slice.project, actors |-> slice.actors,
   backgrounds |-> slice.backgrounds]

\* variant of the autosave effect: the timeout of the previous run is not cleared
scheduleUncleared(pending, slice) == IF pending = <<>> THEN <<slice>> ELSE pending

\* the autosave effect runs after a render with a new project, actors or
\* backgrounds: the cleanup of the previous run clears its timeout, and
\* setTimeout schedules a callback that closes over the slice rendered
schedule(pending, slice) == <<slice>>

\* one more store action call within a bound
Counted(bound) == calls < bound /\ calls' = calls + 1

\* the callback of the timeout runs
AutosaveFires ==
  /\ timer # <<>>
  /\ LET json == JSONstringify(grisFile(timer[1]), GrisFileType)
     IN \/ /\ jsonLength(json) > MaxAutosaveLength
           /\ localStorage' = localStorage
           /\ lastOp' = "autosaveSkipped"
        \/ /\ jsonLength(json) <= MaxAutosaveLength
           /\ localStorage' = <<json>>
           /\ lastOp' = "autosave"
        \* localStorage.setItem throws (quota, storage disabled)
        \/ /\ jsonLength(json) <= MaxAutosaveLength
           /\ localStorage' = localStorage
           /\ lastOp' = "autosaveFailed"
  /\ timer' = <<>>
  /\ UNCHANGED <<project, actors, backgrounds, playback, ui, audioBuffer, audioFile,
                 pastStates, futureStates, nextId, calls, tickRate, cues, loop,
                 page, download, data, canvasVars,
                 startPlaybackTimeRef>>

\* <Toolbar onHome={() => navigate('/')} />: the editor unmounts and the
\* cleanup of the autosave effect clears the timeout
Home ==
  /\ page = "editor"
  /\ page' = "landing"
  /\ timer' = <<>>
  /\ lastOp' = "home"
  /\ UNCHANGED <<project, actors, backgrounds, playback, ui, audioBuffer, audioFile,
                 pastStates, futureStates, nextId, calls, tickRate, cues, loop,
                 localStorage, download, data, canvasVars,
                 startPlaybackTimeRef>>

\* handleExportGris; saved is the slice the file was written from, which the
\* program does not read
SaveProject ==
  /\ page = "editor"
  /\ download' = <<[text |-> JSONstringify(grisFile(present), GrisFileType),
                   saved |-> present]>>
  /\ lastOp' = "exportGris"
  /\ UNCHANGED <<project, actors, backgrounds, playback, ui, audioBuffer, audioFile,
                 pastStates, futureStates, nextId, calls, tickRate, cues, loop,
                 page, timer, localStorage, data, canvasVars,
                 startPlaybackTimeRef>>

\* handleCreate: resetProject(); navigate('/editor'); the editor mounts and
\* its autosave effect runs
HandleCreate(bound) ==
  /\ page = "landing"
  /\ Counted(bound)
  /\ ResetProject
  /\ page' = "editor"
  /\ timer' = schedule(timer, presentNext)
  /\ UNCHANGED <<tickRate, cues, loop, localStorage, download, data, canvasVars,
                 startPlaybackTimeRef>>

\* the text is JSON of an object with project, actors and backgrounds
wellFormed(text) ==
  /\ parses(text)
  /\ text.t = "object"
  /\ has(text.v, "project") /\ has(text.v, "actors") /\ has(text.v, "backgrounds")

\* the body of handleLoad and of handleRestoreAutosave for a text: JSON.parse
\* throws, or data is null and data.project throws, and catch reports it;
\* otherwise loadProject and navigate('/editor') are called. The editor
\* cannot render a slice with an undefined part: its render throws and
\* nothing is mounted.
HandleLoad(text, bound) ==
  /\ page = "landing"
  /\ IF parses(text) /\ text.t = "object"
     THEN LET d == JSONparse(text)
          IN /\ Counted(bound)
             /\ LoadProject(IF has(d, "project") THEN d.project ELSE undefined,
                            IF has(d, "actors") THEN d.actors ELSE undefinedList,
                            IF has(d, "backgrounds") THEN d.backgrounds
                            ELSE undefinedList)
             /\ data' = <<[text |-> text, value |-> d, migrations |-> 0]>>
             /\ IF wellFormed(text)
                THEN page' = "editor" /\ timer' = schedule(timer, presentNext)
                ELSE page' = "error" /\ timer' = timer
     ELSE /\ data' = <<[text |-> text]>>
          /\ lastOp' = "loadFailed"
          /\ UNCHANGED <<project, actors, backgrounds, playback, ui, audioBuffer,
                         audioFile, pastStates, futureStates, nextId, calls, page,
                         timer>>
  /\ UNCHANGED <<tickRate, cues, loop, localStorage, download, canvasVars,
                 startPlaybackTimeRef>>

----------------------------------------------------------------------------
(* SpecPages: projects are created, loaded from files and from the         *)
(* autosave slot, edited, saved and autosaved                              *)

NullText == [t |-> "null", v |-> "null"]
EmptyObjectText == [t |-> "object", v |-> <<>>]

currentActor ==
  [id |-> 103, label |-> "B", shapes |-> <<"rect", "poly">>,
   keyframes |-> <<[time |-> 0, value |-> 1]>>, interpolation |-> "step"]

\* files handed to Load Project: no JSON, null, {}, a file without actors, a
\* legacy file and a file of the current version
LoadTexts ==
  { Garbage, NullText, EmptyObjectText,
    JSONstringify([version |-> 1, project |-> initialProject, backgrounds |-> <<>>],
                  GrisFileType),
    JSONstringify([version |-> 1, project |-> Spread(initialProject, [name |-> "Show"]),
                   actors |-> <<loadedActor>>, backgrounds |-> <<loadedBackground>>],
                  GrisFileType),
    JSONstringify([version |-> GRIS_FILE_VERSION, project |-> initialProject,
                   actors |-> <<currentActor>>, backgrounds |-> <<>>],
                  GrisFileType) }

\* what the editor's handlers leave alone; the autosave effect sets timer
EditorKeeps ==
  UNCHANGED <<tickRate, cues, loop, page, localStorage, download, data, canvasVars,
                 startPlaybackTimeRef>>

\* store actions called in the editor; project, actors or backgrounds is a
\* new object after each and the autosave effect runs again
EditAddActor(bound) ==
  /\ page = "editor"
  /\ Counted(bound)
  /\ AddActor("A")
  /\ timer' = schedule(timer, presentNext)
  /\ EditorKeeps
EditSetActorShape(bound) ==
  /\ page = "editor"
  /\ Counted(bound)
  /\ \E id \in ActorIds : SetActorShape(id, "rect")
  /\ timer' = schedule(timer, presentNext)
  /\ EditorKeeps
EditAddBackground(bound) ==
  /\ page = "editor"
  /\ Counted(bound)
  /\ AddBackground(BigDataUrl, 800, 600)
  /\ timer' = schedule(timer, presentNext)
  /\ EditorKeeps
EditUndo ==
  /\ page = "editor"
  /\ pastStates # <<>>
  /\ Undo
  /\ timer' = schedule(timer, presentNext)
  /\ UNCHANGED calls
  /\ EditorKeeps
\* seek sets playback only: the effect's dependencies are the same objects
EditSeek(bound) ==
  /\ page = "editor"
  /\ Counted(bound)
  /\ \E t \in SeekInputs : Seek(t)
  /\ UNCHANGED timer
  /\ EditorKeeps

PageCreate == HandleCreate(MaxPageCalls)
PageLoad ==
  \E text \in LoadTexts \cup {download[i].text : i \in DOMAIN download} :
    HandleLoad(text, MaxPageCalls)
\* handleRestoreAutosave: if (saved)
PageRestoreAutosave == localStorage # <<>> /\ HandleLoad(localStorage[1], MaxPageCalls)
PageHome == Home
PageSaveProject == SaveProject
PageAutosaveFires == AutosaveFires
PageAddActor == EditAddActor(MaxPageCalls)
PageSetActorShape == EditSetActorShape(MaxPageCalls)

NextPages ==
  \/ PageCreate
  \/ PageLoad
  \/ PageRestoreAutosave
  \/ PageHome
  \/ PageSaveProject
  \/ PageAutosaveFires
  \/ PageAddActor
  \/ PageSetActorShape

SpecPages == Init /\ [][NextPages]_vars

----------------------------------------------------------------------------
(* SpecSave: the autosave of the editor. SpecSaveFair adds that a timeout  *)
(* that stays pending fires: the browser runs the callback of a timer that *)
(* is not cleared.                                                         *)

SaveCreate == HandleCreate(MaxSaveCalls)
SaveHome == Home
SaveAutosaveFires == AutosaveFires
SaveAddActor == EditAddActor(MaxSaveCalls)
SaveAddBackground == EditAddBackground(MaxSaveCalls)
SaveUndo == EditUndo
SaveSeek == EditSeek(MaxSaveCalls)

NextSave ==
  \/ SaveCreate
  \/ SaveHome
  \/ SaveAutosaveFires
  \/ SaveAddActor
  \/ SaveAddBackground
  \/ SaveUndo
  \/ SaveSeek

SpecSave == Init /\ [][NextSave]_vars

SpecSaveFair == Init /\ [][NextSave]_vars /\ WF_vars(AutosaveFires)

----------------------------------------------------------------------------
(* Properties of loading and saving *)

\* C24: a failed load leaves the store untouched: when the text of the file
\* or of the autosave slot is unparsable, or the parsed payload lacks project,
\* actors or backgrounds, the load leaves project, actors and backgrounds as
\* they were.
C24_FailedLoadKeepsStore ==
  [][(/\ page = "landing"
      /\ lastOp' \in {"loadProject", "loadFailed"}
      /\ ~wellFormed(data'[1].text))
     => UNCHANGED <<project, actors, backgrounds>>]_vars

\* the shapes of an actor of either format
shapesOf(a) ==
  IF has(a, "shapes") THEN a.shapes
  ELSE IF has(a, "shape") /\ a.shape # NoShape THEN <<a.shape>> ELSE <<>>

SameActor(a, b) ==
  /\ a.id = b.id
  /\ a.label = b.label
  /\ a.keyframes = b.keyframes
  /\ a.interpolation = b.interpolation
  /\ shapesOf(a) = shapesOf(b)

\* the slice that parse, migrate, loadProject load from the file saved last
reloaded == migrateGrisFile(JSONparse(download[1].text))

\* the slice that handleLoad has loaded is the one the file was saved from
LoadedAsSaved ==
  (lastOp = "loadProject" /\ download # <<>> /\ data[1].text = download[1].text)
  => present = download[1].saved

\* C25: the project file is re-loadable: the file Save Project writes, loaded
\* by parse, migrate, loadProject, gives the project, the backgrounds and the
\* actors that were saved, with every actor's shapes, keyframes and
\* interpolation.
C25_Reloadable ==
  download # <<>> =>
    /\ reloaded.project = download[1].saved.project
    /\ reloaded.backgrounds = download[1].saved.backgrounds
    /\ Len(reloaded.actors) = Len(download[1].saved.actors)
    /\ \A i \in 1 .. Len(reloaded.actors) :
         SameActor(reloaded.actors[i], download[1].saved.actors[i])

----------------------------------------------------------------------------
(* Properties of the autosave *)

\* the text the autosave writes for a slice
autosaveText(slice) == JSONstringify(grisFile(slice), GrisFileType)

\* a step that changes the tracked slice with the editor mounted after it
TrackedChange == presentNext # present /\ page' = "editor"

\* a step that ends the pending timeout without starting another
TimerEnds == timer # <<>> /\ timer' = <<>>

\* a tracked change writes nothing and leaves the timeout of the new slice
\* pending, and only the end of a timeout changes the slot
NoWriteInBurst ==
  /\ TrackedChange => (localStorage' = localStorage /\ timer' = <<presentNext>>)
  /\ localStorage' # localStorage => TimerEnds

\* the write of the step has the slice of the pending timeout, which is the
\* current one
WritesPending ==
  /\ localStorage' = <<autosaveText(timer[1])>>
  /\ timer[1] = present
  /\ UNCHANGED <<project, actors, backgrounds>>

\* C26: autosave coalesces bursts: no write happens during a burst of tracked
\* mutations, exactly one write happens after the last mutation (the timeout
\* the last mutation scheduled ends in a write), and every write contains the
\* project, actors and backgrounds current when that timeout was scheduled.
C26_OneWritePerBurst ==
  [][/\ NoWriteInBurst
     /\ TimerEnds => (lastOp' = "autosave" /\ WritesPending)]_vars

\* C26, amended: at most one write after the last mutation; the timeout ends
\* without a write when the JSON is longer than 4 * 1024 * 1024, when setItem
\* throws, and when the editor is left before it fires.
C26_AtMostOneWritePerBurst ==
  [][/\ NoWriteInBurst
     /\ TimerEnds =>
          /\ lastOp' \in {"autosave", "autosaveSkipped", "autosaveFailed", "home"}
          /\ lastOp' = "autosave" =>
               WritesPending /\ jsonLength(autosaveText(timer[1])) <= MaxAutosaveLength
          /\ lastOp' = "autosaveSkipped" =>
               jsonLength(autosaveText(timer[1])) > MaxAutosaveLength
          /\ lastOp' # "autosave" => localStorage' = localStorage
     /\ timer' # <<>> => timer'[1] = presentNext]_vars

\* two actors were added and then the timeout fired and wrote both
C26_Witness ==
  /\ lastOp = "autosave"
  /\ Len(actors) = 2
  /\ timer = <<>>
  /\ localStorage = <<autosaveText(present)>>

\* the slice has just changed in the editor
Changed ==
  page = "editor" /\ lastOp \in {"resetProject", "addActor", "addBackground", "undo"}

Saved == localStorage = <<autosaveText(present)>>

\* C27: projects are automatically saved: after the tracked slice has
\* changed, the autosave slot eventually holds the JSON of the current
\* project, actors and backgrounds, unless that JSON is over the cap or the
\* write throws, whatever the user does next.
C27_EventuallySaved ==
  Changed ~> (\/ Saved
              \/ jsonLength(autosaveText(present)) > MaxAutosaveLength
              \/ lastOp = "autosaveFailed")

----------------------------------------------------------------------------
(* CanvasPanel: hit testing and the drawing tools. Canvas coordinates are  *)
(* integers and viewState.zoom is in percent. A geometry is a record       *)
(* [type |-> "rectangle", x, y, width, height] or                          *)
(* [type |-> "polygon", points |-> <<<<x, y>>, ...>>].                     *)

\* 15 / viewState.zoom, the distance to the first vertex that closes a polygon
CloseRadius == 15
\* width > 10 && height > 10 of a drawn rectangle
MinRectangle == 10
DefaultOffColor == "#333333"
DefaultOnColor == "#ffcc00"

RatLess(x, y) == x.n * y.d < y.n * x.d

\* isPointInPolygon: inclusive bounds for a rectangle; for a polygon the
\* loop toggles inside once for every edge (i, j) the ray crosses, j being
\* the vertex before i and the last one for the first
isPointInPolygon(x, y, polygon) ==
  IF polygon.type = "rectangle"
  THEN /\ x >= polygon.x /\ x <= polygon.x + polygon.width
       /\ y >= polygon.y /\ y <= polygon.y + polygon.height
  ELSE LET points == polygon.points
           n == Len(points)
           crosses(i) ==
             LET j == IF i = 1 THEN n ELSE i - 1
                 xi == points[i][1]
                 yi == points[i][2]
                 xj == points[j][1]
                 yj == points[j][2]
             IN /\ (yi > y) # (yj > y)
                /\ RatLess(Rat(x),
                           RatAdd(RatDiv(Rat((xj - xi) * (y - yi)), Rat(yj - yi)),
                                  Rat(xi)))
       IN Cardinality({i \in 1 .. n : crosses(i)}) % 2 = 1

\* actors with a shape that contains the point, by position in the list
hitActors(x, y) ==
  {i \in 1 .. Len(actors) :
     \E k \in 1 .. Len(actors[i].shapes) :
       isPointInPolygon(x, y, actors[i].shapes[k].geometry)}

hitBackgrounds(x, y) ==
  {i \in 1 .. Len(backgrounds) :
     /\ x >= backgrounds[i].x /\ x <= backgrounds[i].x + backgrounds[i].width
     /\ y >= backgrounds[i].y /\ y <= backgrounds[i].y + backgrounds[i].height}

\* variant of the hit test: the list is walked from its start
firstOf(hits) == CHOOSE i \in hits : \A j \in hits : i <= j

\* for (const x of [...list].reverse()): the first hit is the last of the list
lastOf(hits) == CHOOSE i \in hits : \A j \in hits : j <= i

\* variant of the closing condition: two vertices are enough
canCloseTwo(points) == Len(points) >= 2

\* drawingState.polygonPoints.length >= 3
canClose(points) == Len(points) >= 3

\* distance < 15 / viewState.zoom, distance being Math.sqrt(dx^2 + dy^2)
withinClosingRadius(x, y, first, zoom) ==
  ((x - first[1]) * (x - first[1]) + (y - first[2]) * (y - first[2])) * zoom * zoom
    < CloseRadius * CloseRadius * 100 * 100

\* the store's addActorShape(actorId, shape): the shape is added to the
\* shapes of the actor
addActorShape(as, actorId, shape) ==
  Map(as, LAMBDA a : IF a.id = actorId
                     THEN Spread(a, [shapes |-> Append(a.shapes, shape)])
                     ELSE a)

\* the modal covers the canvas and its tool buttons while it is shown
CanvasFree == ~showActorAssignModal

\* what no canvas handler touches
CanvasKeeps == UNCHANGED <<tickRate, cues, pageVars, startPlaybackTimeRef>>

\* the branches of a handler that call no store action
StoreKeeps ==
  UNCHANGED <<project, actors, backgrounds, playback, ui, audioBuffer, audioFile,
              pastStates, futureStates, nextId, calls>>

\* handleMouseDown; pan is the middle button, or the left one with Control
MouseDown(pan, x, y) ==
  /\ CanvasFree
  /\ IF pan
     THEN /\ viewState' = [viewState EXCEPT !.isPanning = TRUE]
          /\ UNCHANGED drawingState
     ELSE /\ UNCHANGED viewState
          /\ drawingState' =
               IF ui.tool = "rectangle"
               THEN [isDrawing |-> TRUE, startX |-> x, startY |-> y,
                     currentX |-> x, currentY |-> y, polygonPoints |-> <<>>]
               ELSE drawingState
  /\ lastOp' = "mouseDown"
  /\ StoreKeeps
  /\ CanvasKeeps
  /\ UNCHANGED <<showActorAssignModal, pendingShape>>

\* handleMouseUp
MouseUp(x, y) ==
  /\ CanvasFree
  /\ IF viewState.isPanning
     THEN /\ viewState' = [viewState EXCEPT !.isPanning = FALSE]
          /\ UNCHANGED <<drawingState, showActorAssignModal, pendingShape>>
     ELSE /\ UNCHANGED viewState
          /\ IF drawingState.isDrawing /\ ui.tool = "rectangle"
             THEN LET width == Abs(x - drawingState.startX)
                      height == Abs(y - drawingState.startY)
                  IN /\ IF width > MinRectangle /\ height > MinRectangle
                        THEN /\ pendingShape' =
                                  <<[type |-> "rectangle",
                                     x |-> Min2(drawingState.startX, x),
                                     y |-> Min2(drawingState.startY, y),
                                     width |-> width, height |-> height]>>
                             /\ showActorAssignModal' = TRUE
                        ELSE UNCHANGED <<showActorAssignModal, pendingShape>>
                     /\ drawingState' = initialDrawingState
             ELSE UNCHANGED <<drawingState, showActorAssignModal, pendingShape>>
  /\ lastOp' = "mouseUp"
  /\ StoreKeeps
  /\ CanvasKeeps

\* handleCanvasClick with the bound of the store calls: the polygon tool
\* closes the polygon or collects the point; the select tool calls
\* selectActor(id), or selectBackground(id), or selectActor(null) and
\* selectBackground(null), which are two set(); the rectangle tool does nothing
CanvasClick(x, y, bound) ==
  /\ CanvasFree
  /\ ~viewState.isPanning
  /\ \/ /\ ui.tool = "polygon"
        /\ IF /\ canClose(drawingState.polygonPoints)
              /\ withinClosingRadius(x, y, drawingState.polygonPoints[1], viewState.zoom)
           THEN /\ pendingShape' =
                     <<[type |-> "polygon", points |-> drawingState.polygonPoints]>>
                /\ showActorAssignModal' = TRUE
                /\ drawingState' = initialDrawingState
           ELSE /\ Len(drawingState.polygonPoints) < MaxVertices
                /\ drawingState' =
                     [drawingState EXCEPT !.polygonPoints = Append(@, <<x, y>>),
                                          !.currentX = x, !.currentY = y]
                /\ UNCHANGED <<showActorAssignModal, pendingShape>>
        /\ lastOp' = "canvasClick"
        /\ StoreKeeps
     \/ /\ ui.tool = "select"
        /\ Counted(bound)
        /\ IF hitActors(x, y) # {}
           THEN SelectActor(actors[lastOf(hitActors(x, y))].id)
           ELSE IF hitBackgrounds(x, y) # {}
           THEN SelectBackground(backgrounds[lastOf(hitBackgrounds(x, y))].id)
           ELSE /\ ui' = Spread(ui, [selectedActorId |-> NullId,
                                     selectedBackgroundId |-> NullId])
                /\ pastStates' = handleSet(handleSet(pastStates, present), present)
                /\ futureStates' = <<>>
                /\ lastOp' = "selectBackground"
                /\ UNCHANGED <<project, actors, backgrounds, playback, audioBuffer,
                               audioFile, nextId>>
        /\ UNCHANGED <<drawingState, showActorAssignModal, pendingShape>>
  /\ UNCHANGED viewState
  /\ CanvasKeeps

\* handleDoubleClick
DoubleClick ==
  /\ CanvasFree
  /\ IF ui.tool = "polygon" /\ canClose(drawingState.polygonPoints)
     THEN /\ pendingShape' =
               <<[type |-> "polygon", points |-> drawingState.polygonPoints]>>
          /\ showActorAssignModal' = TRUE
          /\ drawingState' = initialDrawingState
     ELSE UNCHANGED <<drawingState, showActorAssignModal, pendingShape>>
  /\ lastOp' = "doubleClick"
  /\ StoreKeeps
  /\ UNCHANGED viewState
  /\ CanvasKeeps

\* handleAssignToActor, the button of an actor in the modal: addActorShape
\* and setTool('select') are two set()
AssignToActor(actorId, bound) ==
  /\ showActorAssignModal
  /\ Counted(bound)
  /\ LET actor == actors[CHOOSE i \in 1 .. Len(actors) : actors[i].id = actorId]
         inherits == Len(actor.shapes) > 0
         shape == [geometry |-> pendingShape[1],
                   offColor |-> IF inherits /\ actor.shapes[1].offColor # ""
                                THEN actor.shapes[1].offColor ELSE DefaultOffColor,
                   onColor |-> IF inherits /\ actor.shapes[1].onColor # ""
                               THEN actor.shapes[1].onColor ELSE DefaultOnColor]
         added == IF pendingShape # <<>> THEN addActorShape(actors, actorId, shape)
                  ELSE actors
         afterFirst == IF pendingShape # <<>> THEN handleSet(pastStates, present)
                       ELSE pastStates
     IN /\ actors' = added
        /\ pastStates' = handleSet(afterFirst, partialize(project, added, backgrounds))
  /\ futureStates' = <<>>
  /\ ui' = Spread(ui, [tool |-> "select"])
  /\ pendingShape' = <<>>
  /\ showActorAssignModal' = FALSE
  /\ lastOp' = "assignToActor"
  /\ UNCHANGED <<project, backgrounds, playback, audioBuffer, audioFile, nextId,
                 drawingState, viewState>>
  /\ CanvasKeeps

\* variant of the cancel button: the pending shape is kept
CancelShapeKeepsPending ==
  /\ showActorAssignModal
  /\ showActorAssignModal' = FALSE
  /\ lastOp' = "cancelShape"
  /\ StoreKeeps
  /\ UNCHANGED <<drawingState, viewState, pendingShape>>
  /\ CanvasKeeps

\* handleCancelShape
CancelShape ==
  /\ showActorAssignModal
  /\ pendingShape' = <<>>
  /\ showActorAssignModal' = FALSE
  /\ lastOp' = "cancelShape"
  /\ StoreKeeps
  /\ UNCHANGED <<drawingState, viewState>>
  /\ CanvasKeeps

\* variant of Escape: the collected points are kept
EscapeKeepsPoints ==
  /\ drawingState' = [initialDrawingState EXCEPT
                        !.polygonPoints = drawingState.polygonPoints]
  /\ pendingShape' = <<>>
  /\ showActorAssignModal' = FALSE
  /\ lastOp' = "escape"
  /\ StoreKeeps
  /\ UNCHANGED viewState
  /\ CanvasKeeps

\* keydown of Escape
Escape ==
  /\ drawingState' = initialDrawingState
  /\ pendingShape' = <<>>
  /\ showActorAssignModal' = FALSE
  /\ lastOp' = "escape"
  /\ StoreKeeps
  /\ UNCHANGED viewState
  /\ CanvasKeeps

\* the zoom handlers (wheel, zoom in, zoom out, reset) leave a zoom
ViewZoom(zoom) ==
  /\ CanvasFree
  /\ viewState' = [viewState EXCEPT !.zoom = zoom]
  /\ lastOp' = "zoom"
  /\ StoreKeeps
  /\ UNCHANGED <<drawingState, showActorAssignModal, pendingShape>>
  /\ CanvasKeeps

\* the tool buttons
PickTool(tool, bound) ==
  /\ CanvasFree
  /\ Counted(bound)
  /\ SetTool(tool)
  /\ UNCHANGED canvasVars
  /\ CanvasKeeps

----------------------------------------------------------------------------
(* SpecHit: projects with shapes and backgrounds on the canvas, and the     *)
(* select tool's clicks.                                                   *)

\* the same square, once as a rectangle and once as a polygon
SquareRectangle == [type |-> "rectangle", x |-> 0, y |-> 0, width |-> 10, height |-> 10]
SquarePolygon ==
  [type |-> "polygon", points |-> <<<<0, 0>>, <<10, 0>>, <<10, 10>>, <<0, 10>>>>]
SideRectangle == [type |-> "rectangle", x |-> 12, y |-> 0, width |-> 10, height |-> 10]

shapeOf(geometry) ==
  [geometry |-> geometry, offColor |-> DefaultOffColor, onColor |-> DefaultOnColor]

canvasActor(id, shapes) ==
  [id |-> id, label |-> "A", shapes |-> shapes, keyframes |-> <<>>,
   interpolation |-> "step"]

canvasBackground(id, x, y, width, height, zIndex) ==
  [id |-> id, dataUrl |-> "img", x |-> x, y |-> y, width |-> width,
   height |-> height, zIndex |-> zIndex]

CanvasProject == [name |-> "p", duration |-> 0, defaultInterpolation |-> "step"]

CanvasPayloads ==
  { [project |-> CanvasProject,
     actors |-> <<canvasActor(301, <<shapeOf(SquareRectangle)>>),
                  canvasActor(302, <<shapeOf(SquarePolygon)>>)>>,
     backgrounds |-> <<canvasBackground(401, 0, 0, 20, 20, 1)>>],
    [project |-> CanvasProject,
     actors |-> <<canvasActor(301, <<shapeOf(SquarePolygon)>>),
                  canvasActor(302, <<>>),
                  canvasActor(303, <<shapeOf(SideRectangle), shapeOf(SquareRectangle)>>)>>,
     backgrounds |-> <<canvasBackground(401, 0, 0, 20, 20, 2),
                       canvasBackground(402, 10, 0, 40, 40, 1)>>],
    [project |-> CanvasProject,
     actors |-> <<canvasActor(301, <<>>)>>,
     backgrounds |-> <<>>] }

\* canvas coordinates of the mouse events
ClickPoints == {<<5, 5>>, <<10, 10>>, <<15, 5>>, <<40, 40>>}

HitTools == {"select", "rectangle"}

HitLoadProject ==
  /\ calls = 0
  /\ Counted(MaxHitCalls)
  /\ \E f \in CanvasPayloads : LoadProject(f.project, f.actors, f.backgrounds)
  /\ UNCHANGED canvasVars
  /\ CanvasKeeps

HitClick == \E p \in ClickPoints : CanvasClick(p[1], p[2], MaxHitCalls)
HitMouseDown == \E p \in ClickPoints : MouseDown(TRUE, p[1], p[2])
HitMouseUp == \E p \in ClickPoints : MouseUp(p[1], p[2])
HitPickTool == \E tool \in HitTools : PickTool(tool, MaxHitCalls)

NextHit ==
  \/ HitLoadProject
  \/ HitClick
  \/ HitMouseDown
  \/ HitMouseUp
  \/ HitPickTool

SpecHit == Init /\ [][NextHit]_vars

----------------------------------------------------------------------------
(* SpecDraw: the polygon and rectangle tools, the modal that attaches the   *)
(* drawn shape to an actor, and the zoom.                                  *)

DrawPayloads ==
  {f \in CanvasPayloads : Len(f.backgrounds) <= 1}

\* the select tool comes back when a shape is attached
DrawTools == {"polygon", "rectangle"}

\* canvas coordinates of the mouse events while drawing
DrawPoints == {<<5, 5>>, <<15, 5>>, <<40, 40>>}

\* zoom of the view in percent
Zooms == {100, 200}

DrawLoadProject ==
  /\ calls = 0
  /\ Counted(MaxDrawCalls)
  /\ \E f \in DrawPayloads : LoadProject(f.project, f.actors, f.backgrounds)
  /\ UNCHANGED canvasVars
  /\ CanvasKeeps

DrawClick == \E p \in DrawPoints : CanvasClick(p[1], p[2], MaxDrawCalls)
DrawDoubleClick == DoubleClick
DrawMouseDown == \E p \in DrawPoints : MouseDown(FALSE, p[1], p[2])
DrawMouseUp == \E p \in DrawPoints : MouseUp(p[1], p[2])
DrawPickTool == \E tool \in DrawTools : PickTool(tool, MaxDrawCalls)
DrawAssignToActor ==
  \E i \in 1 .. Len(actors) : AssignToActor(actors[i].id, MaxDrawCalls)
DrawCancelShape == CancelShape
DrawEscape == Escape
DrawZoom == \E zoom \in Zooms : ViewZoom(zoom)

NextDraw ==
  \/ DrawLoadProject
  \/ DrawClick
  \/ DrawDoubleClick
  \/ DrawMouseDown
  \/ DrawMouseUp
  \/ DrawPickTool
  \/ DrawAssignToActor
  \/ DrawCancelShape
  \/ DrawEscape
  \/ DrawZoom

SpecDraw == Init /\ [][NextDraw]_vars

----------------------------------------------------------------------------
(* Properties of the canvas.                                               *)

\* the actors, by position, that have at least one shape containing p
containing(p) ==
  {i \in 1 .. Len(actors) :
     \E k \in 1 .. Len(actors[i].shapes) :
       isPointInPolygon(p[1], p[2], actors[i].shapes[k].geometry)}

\* the backgrounds, by position, whose bounds contain p
under(p) ==
  {i \in 1 .. Len(backgrounds) :
     /\ p[1] >= backgrounds[i].x /\ p[1] <= backgrounds[i].x + backgrounds[i].width
     /\ p[2] >= backgrounds[i].y /\ p[2] <= backgrounds[i].y + backgrounds[i].height}

Topmost(p, i) == i \in containing(p) /\ \A j \in containing(p) : j <= i

SelectClickAt(p) == ui.tool = "select" /\ CanvasClick(p[1], p[2], MaxHitCalls)

\* C28: a select-tool click at p selects the last actor of the list among
\* those with a shape containing p; with no such actor it selects a
\* background containing p; with neither, both selections become null.
C28_TopmostSelected ==
  [][\A p \in ClickPoints :
       SelectClickAt(p) =>
         IF containing(p) # {}
         THEN \E i \in containing(p) :
                Topmost(p, i) /\ ui'.selectedActorId = actors[i].id
         ELSE IF under(p) # {}
         THEN /\ ui'.selectedActorId = NullId
              /\ \E i \in under(p) : ui'.selectedBackgroundId = backgrounds[i].id
         ELSE /\ ui'.selectedActorId = NullId
              /\ ui'.selectedBackgroundId = NullId]_vars

\* a click has selected the upper of two actors that overlap at a point
C28_Witness ==
  /\ lastOp = "selectActor"
  /\ \E p \in ClickPoints :
       \E i \in containing(p) :
         /\ Cardinality(containing(p)) >= 2
         /\ Topmost(p, i)
         /\ ui.selectedActorId = actors[i].id

\* the integer points in and around the square
SquareGrid == (0 - 1) .. 11

\* C29: for the square (0,0),(10,0),(10,10),(0,10), isPointInPolygon gives
\* the same answer for the rectangle and for the polygon of the four
\* corners at every integer point: interior, exterior and boundary.
C29_OneBoundaryPolicy ==
  \A i \in 1 .. Len(actors) : \A j \in 1 .. Len(actors) :
    \A k \in 1 .. Len(actors[i].shapes) : \A l \in 1 .. Len(actors[j].shapes) :
      (/\ actors[i].shapes[k].geometry = SquareRectangle
       /\ actors[j].shapes[l].geometry = SquarePolygon)
        => \A x \in SquareGrid : \A y \in SquareGrid :
             isPointInPolygon(x, y, actors[i].shapes[k].geometry)
               = isPointInPolygon(x, y, actors[j].shapes[l].geometry)

PolygonClick == ui.tool = "polygon" /\ lastOp' = "canvasClick"

Collected == drawingState.polygonPoints

\* C30: with fewer than 3 vertices a click of the polygon tool appends a
\* vertex and a double-click produces no pending shape; a polygon that
\* becomes the pending shape, and one attached to an actor, has at least 3
\* points, which are the collected vertices in click order.
C30_ClosesWithThree ==
  [][/\ (PolygonClick /\ Len(Collected) < 3) =>
          /\ pendingShape' = pendingShape
          /\ Len(Collected') = Len(Collected) + 1
          /\ SubSeq(Collected', 1, Len(Collected)) = Collected
          /\ Collected'[Len(Collected')] \in DrawPoints
     /\ (lastOp' = "doubleClick" /\ Len(Collected) < 3) =>
          pendingShape' = pendingShape
     /\ (pendingShape' # <<>> /\ pendingShape' # pendingShape) =>
          (pendingShape'[1].type = "polygon" =>
             /\ Len(pendingShape'[1].points) >= 3
             /\ pendingShape'[1].points = Collected)
     /\ lastOp' = "assignToActor" =>
          \E i \in 1 .. Len(actors) :
            /\ actors'[i].shapes = Append(actors[i].shapes,
                                          actors'[i].shapes[Len(actors'[i].shapes)])
            /\ actors'[i].shapes[Len(actors'[i].shapes)].geometry = pendingShape[1]
            /\ (pendingShape[1].type = "polygon" => Len(pendingShape[1].points) >= 3)
            /\ \A j \in 1 .. Len(actors) : j # i => actors'[j] = actors[j]]_vars

\* a polygon of three collected vertices has been attached to an actor
C30_Witness ==
  /\ lastOp = "assignToActor"
  /\ \E i \in 1 .. Len(actors) :
       /\ Len(actors[i].shapes) > 0
       /\ actors[i].shapes[Len(actors[i].shapes)].geometry.type = "polygon"
       /\ Len(actors[i].shapes[Len(actors[i].shapes)].geometry.points) = 3

----------------------------------------------------------------------------
(* SpecPointer: every pointer and key event of the canvas panel on a       *)
(* project with one actor.                                                 *)

\* handleMouseMove: the pan offsets of the view are not followed
MouseMove(x, y) ==
  /\ CanvasFree
  /\ drawingState' =
       IF /\ ~viewState.isPanning
          /\ \/ drawingState.isDrawing /\ ui.tool = "rectangle"
             \/ ui.tool = "polygon" /\ Len(drawingState.polygonPoints) > 0
       THEN [drawingState EXCEPT !.currentX = x, !.currentY = y]
       ELSE drawingState
  /\ lastOp' = "mouseMove"
  /\ StoreKeeps
  /\ UNCHANGED <<viewState, showActorAssignModal, pendingShape>>
  /\ CanvasKeeps

\* onMouseLeave of the container
MouseLeave ==
  /\ CanvasFree
  /\ viewState' = [viewState EXCEPT !.isPanning = FALSE]
  /\ lastOp' = "mouseLeave"
  /\ StoreKeeps
  /\ UNCHANGED <<drawingState, showActorAssignModal, pendingShape>>
  /\ CanvasKeeps

\* keyup of Control, on the window
KeyUpControl ==
  /\ viewState' = [viewState EXCEPT !.isPanning = FALSE]
  /\ lastOp' = "keyUp"
  /\ StoreKeeps
  /\ UNCHANGED <<drawingState, showActorAssignModal, pendingShape>>
  /\ CanvasKeeps

PointerPayloads == {f \in CanvasPayloads : Len(f.actors) = 1}

\* canvas coordinates of the pointer events
PointerPoints == {<<5, 5>>, <<40, 40>>}

PointerLoadProject ==
  /\ calls = 0
  /\ Counted(MaxPointerCalls)
  /\ \E f \in PointerPayloads : LoadProject(f.project, f.actors, f.backgrounds)
  /\ UNCHANGED canvasVars
  /\ CanvasKeeps

PointerDown == \E pan \in BOOLEAN : \E p \in PointerPoints : MouseDown(pan, p[1], p[2])
PointerMove == \E p \in PointerPoints : MouseMove(p[1], p[2])
PointerUp == \E p \in PointerPoints : MouseUp(p[1], p[2])
PointerLeave == MouseLeave
PointerKeyUp == KeyUpControl
PointerClick == \E p \in PointerPoints : CanvasClick(p[1], p[2], MaxPointerCalls)
PointerDoubleClick == DoubleClick
PointerPickTool == \E tool \in DrawTools : PickTool(tool, MaxPointerCalls)
PointerAssignToActor ==
  \E i \in 1 .. Len(actors) : AssignToActor(actors[i].id, MaxPointerCalls)
PointerCancelShape == CancelShape
PointerEscape == Escape

NextPointer ==
  \/ PointerLoadProject
  \/ PointerDown
  \/ PointerMove
  \/ PointerUp
  \/ PointerLeave
  \/ PointerKeyUp
  \/ PointerClick
  \/ PointerDoubleClick
  \/ PointerPickTool
  \/ PointerAssignToActor
  \/ PointerCancelShape
  \/ PointerEscape

SpecPointer == Init /\ [][NextPointer]_vars

----------------------------------------------------------------------------
(* Properties of the drawing states.                                       *)

Idle ==
  /\ ~drawingState.isDrawing
  /\ drawingState.polygonPoints = <<>>
  /\ pendingShape = <<>>
  /\ ~showActorAssignModal

\* C31: Escape, from the idle, rectangle-dragging, polygon-collecting and
\* awaiting-assignment states alike, leads to idle (not drawing, no collected
\* points, no pending shape, modal closed) and leaves the store's project,
\* actors and backgrounds unchanged.
C31_EscapeLeadsToIdle ==
  [][lastOp' = "escape" => Idle' /\ UNCHANGED <<project, actors, backgrounds>>]_vars

\* Escape has been pressed with the polygon tool on a loaded project
C31_Witness ==
  /\ lastOp = "escape"
  /\ Idle
  /\ ui.tool = "polygon"
  /\ Len(actors) > 0

\* C34: the actor-assignment modal is open exactly when a pending shape
\* exists, after any sequence of pointer, click, assign, cancel and Escape
\* events.
C34_ModalIffPending == showActorAssignModal <=> pendingShape # <<>>

\* a drawn rectangle awaits its actor in the open modal
C34_Witness ==
  /\ showActorAssignModal
  /\ pendingShape # <<>>
  /\ pendingShape[1].type = "rectangle"
  /\ lastOp = "mouseUp"

----------------------------------------------------------------------------
(* SpecColor: the colour panel of the selected actor, shape clearing and   *)
(* the assignment of drawn rectangles.                                     *)

\* the store's updateActorShapeColors(actorId, off, on): both colours are
\* set on every shape of the actor
updateActorShapeColors(as, actorId, off, on) ==
  Map(as, LAMBDA a :
        IF a.id = actorId
        THEN Spread(a, [shapes |->
               Map(a.shapes, LAMBDA sh : Spread(sh, [offColor |-> off, onColor |-> on]))])
        ELSE a)

\* the store's clearActorShapes(actorId)
clearActorShapes(as, actorId) ==
  Map(as, LAMBDA a : IF a.id = actorId THEN Spread(a, [shapes |-> <<>>]) ELSE a)

\* actors.find(a => a.id === ui.selectedActorId) || null, as a list
selectedActor ==
  IF \E i \in 1 .. Len(actors) : actors[i].id = ui.selectedActorId
  THEN <<actors[CHOOSE i \in 1 .. Len(actors) :
                  /\ actors[i].id = ui.selectedActorId
                  /\ \A j \in 1 .. Len(actors) :
                       actors[j].id = ui.selectedActorId => i <= j]>>
  ELSE <<>>

\* the panel is rendered for a selected actor with shapes, below the modal
ColorPanelShown ==
  /\ CanvasFree
  /\ selectedActor # <<>>
  /\ Len(selectedActor[1].shapes) > 0

\* handleColorChange, from the colour picker or the text field of a colour
HandleColorChange(colorType, color, bound) ==
  /\ ColorPanelShown
  /\ Counted(bound)
  /\ LET currentShape == selectedActor[1].shapes[1]
         offColor == IF colorType = "off" THEN color ELSE currentShape.offColor
         onColor == IF colorType = "on" THEN color ELSE currentShape.onColor
     IN actors' = updateActorShapeColors(actors, selectedActor[1].id, offColor, onColor)
  /\ Recorded("updateActorShapeColors")
  /\ UNCHANGED <<project, backgrounds, playback, ui, audioBuffer, audioFile, nextId>>
  /\ UNCHANGED canvasVars
  /\ CanvasKeeps

\* handleRemoveShapes: clearActorShapes and selectActor(null) are two set()
HandleRemoveShapes(bound) ==
  /\ ColorPanelShown
  /\ Counted(bound)
  /\ LET cleared == clearActorShapes(actors, selectedActor[1].id)
     IN /\ actors' = cleared
        /\ pastStates' = handleSet(handleSet(pastStates, present),
                                   partialize(project, cleared, backgrounds))
  /\ futureStates' = <<>>
  /\ ui' = Spread(ui, [selectedActorId |-> NullId, selectedBackgroundId |-> NullId])
  /\ lastOp' = "removeShapes"
  /\ UNCHANGED <<project, backgrounds, playback, audioBuffer, audioFile, nextId>>
  /\ UNCHANGED canvasVars
  /\ CanvasKeeps

ColorPayloads == {f \in CanvasPayloads : Len(f.actors) = 2}

\* values of the colour picker and of the text field, which can be emptied
ColorInputs == {"", "#ff0000"}

ColorTypes == {"off", "on"}

ColorLoadProject ==
  /\ calls = 0
  /\ Counted(MaxColorCalls)
  /\ \E f \in ColorPayloads : LoadProject(f.project, f.actors, f.backgrounds)
  /\ UNCHANGED canvasVars
  /\ CanvasKeeps

ColorClick == \E p \in PointerPoints : CanvasClick(p[1], p[2], MaxColorCalls)
ColorChange ==
  \E colorType \in ColorTypes : \E color \in ColorInputs :
    HandleColorChange(colorType, color, MaxColorCalls)
ColorRemoveShapes == HandleRemoveShapes(MaxColorCalls)
ColorPickTool == PickTool("rectangle", MaxColorCalls)
ColorMouseDown == \E p \in PointerPoints : MouseDown(FALSE, p[1], p[2])
ColorMouseUp == \E p \in PointerPoints : MouseUp(p[1], p[2])
ColorAssignToActor ==
  \E i \in 1 .. Len(actors) : AssignToActor(actors[i].id, MaxColorCalls)

NextColor ==
  \/ ColorLoadProject
  \/ ColorClick
  \/ ColorChange
  \/ ColorRemoveShapes
  \/ ColorPickTool
  \/ ColorMouseDown
  \/ ColorMouseUp
  \/ ColorAssignToActor

SpecColor == Init /\ [][NextColor]_vars

\* C32: all shapes owned by one actor have the same offColor and the same
\* onColor, after any sequence of shape assignments, colour edits through
\* the colour panel and shape clearing.
C32_UniformColors ==
  \A i \in 1 .. Len(actors) :
    \A k \in 1 .. Len(actors[i].shapes) : \A l \in 1 .. Len(actors[i].shapes) :
      /\ actors[i].shapes[k].offColor = actors[i].shapes[l].offColor
      /\ actors[i].shapes[k].onColor = actors[i].shapes[l].onColor

----------------------------------------------------------------------------
(* SpecOne: the operations that set or clear a selection, on projects with *)
(* shapes and backgrounds.                                                 *)

OneLoadProject ==
  Call(MaxOneCalls)
    /\ \E f \in CanvasPayloads : LoadProject(f.project, f.actors, f.backgrounds)
OneResetProject == Call(MaxOneCalls) /\ ResetProject
OneSelectActor == Call(MaxOneCalls) /\ \E id \in ActorIds \cup {NullId} : SelectActor(id)
OneSelectBackground ==
  Call(MaxOneCalls) /\ \E id \in BackgroundIds \cup {NullId} : SelectBackground(id)
OneRemoveActor == Call(MaxOneCalls) /\ \E id \in ActorIds : RemoveActor(id)
OneRemoveBackground == Call(MaxOneCalls) /\ \E id \in BackgroundIds : RemoveBackground(id)
OneClick == \E p \in ClickPoints : CanvasClick(p[1], p[2], MaxOneCalls)

NextOne ==
  \/ OneLoadProject
  \/ OneResetProject
  \/ OneSelectActor
  \/ OneSelectBackground
  \/ OneRemoveActor
  \/ OneRemoveBackground
  \/ OneClick

SpecOne == Init /\ [][NextOne]_vars

\* C33: through selectActor, selectBackground, removeActor,
\* removeBackground, loadProject, resetProject and canvas clicks,
\* ui.selectedActorId and ui.selectedBackgroundId are never both non-null.
C33_OneKindSelected ==
  ui.selectedActorId = NullId \/ ui.selectedBackgroundId = NullId

\* an actor has been selected in a project that has backgrounds to select
C33_Witness ==
  /\ lastOp = "selectActor"
  /\ ui.selectedActorId # NullId
  /\ ui.selectedBackgroundId = NullId
  /\ Len(backgrounds) > 0
  /\ calls = 3

----------------------------------------------------------------------------
(* SpecPlayer: the playhead. Times are integers; startPlaybackTimeRef is   *)
(* the ref of PlaybackControls that holds the playhead at the start of     *)
(* playback.                                                               *)

\* what the handlers of the timeline leave alone
PlayerKeeps == UNCHANGED <<tickRate, cues, pageVars, canvasVars>>

\* the play/pause effect, deps [playback.isPlaying, audioBuffer]: with a
\* buffer and while playing it captures the store's currentTime
effect(buffer, pb, ref) ==
  IF buffer # NoAudio /\ pb.isPlaying THEN pb.currentTime ELSE ref

\* handlePlayPause
HandlePlayPause(bound) ==
  /\ Counted(bound)
  /\ IF playback.isPlaying THEN Pause ELSE Play
  /\ startPlaybackTimeRef' = effect(audioBuffer, playback', startPlaybackTimeRef)
  /\ PlayerKeeps

\* updateTime, the animation frame callback: adjustedElapsed is the wall
\* time since the start, less the audio latency, and not below 0;
\* setPlayback and pause are two set()
UpdateTime(adjustedElapsed, bound) ==
  /\ audioBuffer # NoAudio
  /\ playback.isPlaying
  /\ Counted(bound)
  /\ LET newTime == startPlaybackTimeRef + adjustedElapsed
         clampedTime == Min2(newTime, playback.duration)
     IN IF clampedTime >= playback.duration
        THEN /\ playback' = Spread(playback, [currentTime |-> clampedTime,
                                              isPlaying |-> FALSE])
             /\ pastStates' = handleSet(handleSet(pastStates, present), present)
        ELSE /\ playback' = Spread(playback, [currentTime |-> clampedTime])
             /\ pastStates' = handleSet(pastStates, present)
  /\ futureStates' = <<>>
  /\ lastOp' = "updateTime"
  /\ UNCHANGED <<project, actors, backgrounds, ui, audioBuffer, audioFile, nextId,
                 startPlaybackTimeRef>>
  /\ PlayerKeeps

\* handleLoadAudio: setAudioBuffer, setAudioFile and setPlayback are three
\* set(); the new buffer runs the effect again
HandleLoadAudio(duration, bound) ==
  /\ Counted(bound)
  /\ audioBuffer' = "buffer"
  /\ audioFile' = "file"
  /\ playback' = Spread(playback, [duration |-> duration, currentTime |-> 0])
  /\ pastStates' = handleSet(handleSet(handleSet(pastStates, present), present), present)
  /\ futureStates' = <<>>
  /\ lastOp' = "loadAudio"
  /\ startPlaybackTimeRef' = effect(audioBuffer', playback', startPlaybackTimeRef)
  /\ UNCHANGED <<project, actors, backgrounds, ui, nextId>>
  /\ PlayerKeeps

\* seek(time) from the timeline: the ruler, the keyframes, the step buttons
PlayerSeek(time, bound) ==
  /\ Counted(bound)
  /\ Seek(time)
  /\ UNCHANGED startPlaybackTimeRef
  /\ PlayerKeeps

\* loadProject from the landing page; the editor mounts with a new ref,
\* and its effect runs
PlayerLoadProject(f, bound) ==
  /\ Counted(bound)
  /\ LoadProject(f.project, f.actors, f.backgrounds)
  /\ startPlaybackTimeRef' = effect(audioBuffer, playback, 0)
  /\ PlayerKeeps

\* resetProject from the landing page
PlayerResetProject(bound) ==
  /\ Counted(bound)
  /\ ResetProject
  /\ startPlaybackTimeRef' = 0
  /\ PlayerKeeps

AdjustedElapsed == {0, 1, 4}
AudioDurations == {2, 5}
PlayerSeekInputs == {0 - 1, 3, 7}

PlayPause == HandlePlayPause(MaxPlayerCalls)
Tick == \E e \in AdjustedElapsed : UpdateTime(e, MaxPlayerCalls)
LoadAudio == \E d \in AudioDurations : HandleLoadAudio(d, MaxPlayerCalls)
SeekTo == \E t \in PlayerSeekInputs : PlayerSeek(t, MaxPlayerCalls)
PlayerLoad == \E f \in PointerPayloads : PlayerLoadProject(f, MaxPlayerCalls)
PlayerReset == PlayerResetProject(MaxPlayerCalls)

NextPlayer ==
  \/ PlayPause
  \/ Tick
  \/ LoadAudio
  \/ SeekTo
  \/ PlayerLoad
  \/ PlayerReset

SpecPlayer == Init /\ [][NextPlayer]_vars

InTrack == 0 <= playback.currentTime /\ playback.currentTime <= playback.duration

\* C35: through seek, play, pause, the playback tick, audio load,
\* loadProject and resetProject, 0 <= playback.currentTime <=
\* playback.duration; seek(x) sets currentTime to x clamped to [0, duration].
C35_PlayheadInTrack ==
  /\ InTrack
  /\ lastOp = "seek" =>
       \E x \in PlayerSeekInputs :
         playback.currentTime = Max2(0, Min2(x, playback.duration))

\* a seek beyond the end of a loaded track has left the playhead at the end
C35_Witness ==
  /\ lastOp = "seek"
  /\ playback.duration > 0
  /\ playback.currentTime = playback.duration

----------------------------------------------------------------------------
(* SpecLabel: the Add Actor button and the removal of actors.              *)

\* handleAddActor: the label is `Actor ${actors.length + 1}`
HandleAddActor(bound) ==
  /\ Call(bound)
  /\ AddActor("Actor " \o ToString(Len(actors) + 1))

LabelAddActor == HandleAddActor(MaxLabelCalls)
LabelRemoveActor == Call(MaxLabelCalls) /\ \E id \in ActorIds : RemoveActor(id)

NextLabel ==
  \/ LabelAddActor
  \/ LabelRemoveActor

SpecLabel == Init /\ [][NextLabel]_vars

\* C36: after any sequence of Add Actor clicks and actor removals no two
\* actors of the list share a label.
C36_DistinctLabels ==
  \A i \in 1 .. Len(actors) : \A j \in 1 .. Len(actors) :
    i # j => actors[i].label # actors[j].label

----------------------------------------------------------------------------
(* Properties of the exported cue list.                                    *)

LabelsDistinct ==
  \A i \in 1 .. Len(actors) : \A j \in 1 .. Len(actors) :
    i # j => actors[i].label # actors[j].label

KeyframesAscending ==
  \A a \in 1 .. Len(actors) :
    \A i \in 1 .. Len(actors[a].keyframes) : \A j \in 1 .. Len(actors[a].keyframes) :
      i < j => actors[a].keyframes[i].time < actors[a].keyframes[j].time

OneCuePerTimeAndId ==
  \A i \in 1 .. Len(cues) : \A j \in 1 .. Len(cues) :
    i # j => ~(cues[i].t = cues[j].t /\ cues[i].id = cues[j].id)

\* C37: for actors with distinct labels and time-ascending unique
\* keyframes, generateCues never returns two cues with the same t and the
\* same id, with duration 0 and in the sampled mode alike.
C37_OneCuePerTimeAndId ==
  (lastOp = "downloadCues" /\ LabelsDistinct /\ KeyframesAscending)
    => OneCuePerTimeAndId

\* the same for the exports of the sampled mode only
SampledOneCuePerTimeAndId ==
  (lastOp = "downloadCues" /\ LabelsDistinct /\ KeyframesAscending
     /\ playback.duration > 0)
    => OneCuePerTimeAndId

----------------------------------------------------------------------------
(* SpecValue: the value editor of a keyframe in ActorTrack, and undo.      *)

\* handleValueSubmit for the keyframe being edited: the value is
\* Math.max(0, Math.min(1, parseFloat(editValue) || 0)); removeKeyframe and
\* addKeyframe are two set()
HandleValueSubmit(actorId, editingKeyframe, editValue, bound) ==
  /\ Call(bound)
  /\ LET newValue == Max2(0, Min2(1, editValue))
         removed == Map(actors, LAMBDA a :
                      IF a.id = actorId
                      THEN Spread(a, [keyframes |->
                             SelectSeq(a.keyframes,
                                       LAMBDA k : k.time # editingKeyframe.time)])
                      ELSE a)
         added == Map(removed, LAMBDA a :
                    IF a.id # actorId THEN a
                    ELSE Spread(a, [keyframes |->
                           newKeyframes(a.keyframes,
                                        [time |-> editingKeyframe.time,
                                         value |-> newValue])]))
     IN /\ actors' = added
        /\ pastStates' = handleSet(handleSet(pastStates, present),
                                   partialize(project, removed, backgrounds))
  /\ futureStates' = <<>>
  /\ lastOp' = "valueSubmit"
  /\ UNCHANGED <<project, backgrounds, playback, ui, audioBuffer, audioFile, nextId>>

\* values typed into the editor, as parseFloat reads them
EditValues == {0, 1, 2}

ValueAddActor == Call(MaxValueCalls) /\ AddActor("A")
ValueAddKeyframe ==
  Call(MaxValueCalls) /\ \E id \in ActorIds, k \in KeyFrames : AddKeyframe(id, k)
ValueSubmit ==
  \E i \in 1 .. Len(actors) : \E j \in 1 .. Len(actors[i].keyframes) :
    \E v \in EditValues :
      HandleValueSubmit(actors[i].id, actors[i].keyframes[j], v, MaxValueCalls)

NextValue ==
  \/ ValueAddActor
  \/ ValueAddKeyframe
  \/ ValueSubmit
  \/ DoUndo

SpecValue == Init /\ [][NextValue]_vars

timesOf(keyframes) == {keyframes[i].time : i \in 1 .. Len(keyframes)}

\* C38: a keyframe value edit is one undoable step: the history entry that
\* a single undo() restores after the edit has, for every actor, keyframes
\* at the same times as the edited list (the edited keyframe is present),
\* and no entry shows the keyframe missing.
C38_ValueEditOneStep ==
  lastOp = "valueSubmit" =>
    /\ Len(pastStates) > 0
    /\ LET previous == pastStates[Len(pastStates)]
       IN /\ Len(previous.actors) = Len(actors)
          /\ \A i \in 1 .. Len(actors) :
               timesOf(previous.actors[i].keyframes) = timesOf(actors[i].keyframes)

----------------------------------------------------------------------------
(* Properties of loading and resetting with respect to the history.        *)

Replaced(op) == op = "loadProject" \/ op = "resetProject"

\* C39: loadProject and resetProject do not clear the history: after either
\* the past is not empty and holds the earlier entries, the slice an
\* immediate undo() restores is the project, actors and backgrounds that
\* were current before, and an undo() that follows restores it.
C39_LoadAndResetTracked ==
  [][/\ Replaced(lastOp') =>
          /\ Len(pastStates') > 0
          /\ Len(pastStates') >= Len(pastStates)
          /\ undo(pastStates', presentNext, futureStates').present = present
     /\ (Replaced(lastOp) /\ lastOp' = "undo") =>
          presentNext = pastStates[Len(pastStates)]]_vars

\* a project has been loaded over a history that already had entries
C39_Witness ==
  /\ lastOp = "loadProject"
  /\ Len(pastStates) >= 2
  /\ Len(actors) > 0

====
